---- MODULE Spec2Model ----
(***************************************************************************)
(* A model of the carbon log agent's pipeline kernel.                      *)
(*                                                                         *)
(* Part I  - pipeline package: NewPipeline (setOperatorOutputs, addNodes,  *)
(*           connectNodes, connectNode, unorderableToCycles) and the       *)
(*           lifecycle supervisor Pipeline.Start / Pipeline.Stop.          *)
(* Part II - input operators: the goroutines of JournaldInput and UDPInput *)
(*           with the persister and the writer they use.                   *)
(* Part III- entry package: Get / Set / Delete through a field and         *)
(*           Entry.Read.                                                   *)
(* Part IV - helpers: Entry.Copy over a heap of Go objects, the operator   *)
(*           registry with Config.UnmarshalJSON / UnmarshalYAML, Duration, *)
(*           and ExprString.                                               *)
(***************************************************************************)
EXTENDS Integers, Sequences, FiniteSets, TLC

(***************************************************************************)
(* Bounds of the model.                                                    *)
(***************************************************************************)
\* Largest number of output ids one operator declares.
MaxOutputs == 2
\* Largest number of Pipeline.Start / Pipeline.Stop invocations in a run.
MaxRuns == 2

VARIABLES
    operators,  \* the []operator.Operator handed to NewPipeline
    pstate,     \* "new" before NewPipeline, then "built" | "failed" | "panic"
    graph,      \* Pipeline.Graph: [nodes, edges]
    buildErr,   \* the error NewPipeline returned
    running,    \* Pipeline.running
    runs        \* history: one record per Pipeline.Start / Pipeline.Stop call

PipelineVars == <<operators, pstate, graph, buildErr, running, runs>>

VARIABLES
    jstate,     \* JournaldInput: "absent" | "built" | "started" | "startFailed"
    jctx,       \* the context of the last Start: "none" | "live" | "done"
    jwg,        \* operator.wg: goroutines not yet Done
    jproc,      \* the journalctl process: "none" | "alive" | "dead"
    jnext,      \* number of the next journal line journalctl's stdout yields
    jflusher,   \* position of the flusher goroutine
    jreader,    \* position of the reader goroutine
    jcur,       \* the cursor the reader parsed from its current line
    jlock,      \* who is inside the persister: "free" | "reader" | "flusher"
    jcache,     \* the persister's working set: lastReadCursor (0 when unset)
    jdurable,   \* lastReadCursor in the database (0 when unset)
    jstop,      \* position of the Stop call: "idle" | "waiting" | "returned"
    jcounts,    \* how many times Start, Stop and a crash happened
    jconfig,    \* the operator's OutputIDs and the malformed journal lines
    jwritten,   \* history: the cursors of the entries handed to Write
    jprocessed, \* history: the Process calls made by Write
    jcmd,       \* the args newCmd has captured, as of the command it built last,
                \* and the cursor it was called with
    jfinal      \* history: how the reader's deferred Sync of this run ended:
                \* "none" | "ok" | "failed"

JournaldVars == <<jstate, jctx, jwg, jproc, jnext, jflusher, jreader, jcur, jlock,
                  jcache, jdurable, jstop, jcounts, jconfig, jwritten, jprocessed,
                   jcmd, jfinal>>

VARIABLES
    ustate,     \* UDPInput: "absent" | "built" | "started"
    uconn,      \* u.connection: "none" | "open" | "closed"
    uhandler,   \* position of the message handler goroutine
    umessage,   \* what the handler's last readMessage returned: [message, err]
    uwg,        \* u.waitGroup: goroutines not yet Done
    ustop,      \* position of the Stop call: "idle" | "closing" | "waiting" | "returned"
    ucounts,    \* how many reads and Stop calls happened
    uwritten    \* history: the entries handed to Write, each with the result of
                \* the read it was made from

UDPVars == <<ustate, uconn, uhandler, umessage, uwg, ustop, ucounts, uwritten>>

InputVars == <<JournaldVars, UDPVars>>

VARIABLES
    entryRecord,  \* Entry.Record
    entryField,   \* the record field of the last call
    entryArg,     \* the value handed to Set, or the value under the field for Read
    entryCall,    \* the last call: [op, before, value, ok]
    entryDest     \* the destination of Entry.Read

EntryVars == <<entryRecord, entryField, entryArg, entryCall, entryDest>>

VARIABLES
    heap,         \* the Go objects entries point to: slices and maps, by address
    entries,      \* the Entry structs: the original and, once made, its copy
    heapOp        \* the last call on an entry: [op, on]

CopyVars == <<heap, entries, heapOp>>

VARIABLES
    registry,     \* the registry: operator type -> what Register stored
    builders,     \* the Builder values that exist, by address
    decodes       \* history: the results of Config.UnmarshalJSON / UnmarshalYAML

DecodeVars == <<registry, builders, decodes>>

VARIABLES
    durationLiteral,  \* the duration literal of a configuration document
    durationYAML,     \* what Duration.UnmarshalYAML made of it
    durationJSON      \* what Duration.UnmarshalJSON made of it

DurationVars == <<durationLiteral, durationYAML, durationJSON>>

VARIABLES
    exprConfig,   \* the ExprStringConfig: a string
    exprString,   \* what Build returned: the ExprString or the error
    exprRendered  \* what Render returned

ExprVars == <<exprConfig, exprString, exprRendered>>

VARIABLES
    journalLine,    \* the line parseJournalEntry is given
    journalParsed   \* what the reader loop made of it: the entry, the cursor and
                    \* the error parseJournalEntry returned, and what was Set and written

LineVars == <<journalLine, journalParsed>>

VARIABLES
    jsonConfig,  \* JSONParser: field and destinationField
    jsonInput,  \* the channel p.Input(): the entries sent and not yet received
    jsonClosed,  \* whether the input channel is closed
    jsonWorker,  \* position of the goroutine Start spawns
    jsonReceived,  \* history: the entries the goroutine has received
    jsonResult,  \* what processEntry returned for the entry in hand
    jsonOutput,  \* history: the entries sent on p.Output()
    jsonWg  \* the wait group Start was given

WorkerVars == <<jsonConfig, jsonInput, jsonClosed, jsonWorker, jsonReceived, jsonResult, jsonOutput, jsonWg>>

VARIABLES
    parserOperator,  \* the JSONParser operator: ParseFrom, ParseTo and its TimeParser
    parserEntry,  \* the entry Process is given
    parserResult  \* what Process returned and what it wrote to the output

ParserVars == <<parserOperator, parserEntry, parserResult>>

VARIABLES
    wconfig,  \* NewFileWatcher: startFromBeginning, and whether fsnotify can watch the path
    wdisk,  \* the lines of the file at w.path
    woffset,  \* w.offset, in lines
    wposition,  \* the read position of w.file, the descriptor Watch opened
    wemitted,  \* history: the lines handed to fileSource.Output
    wctx,  \* the context of Watch: "none" | "live" | "done"
    wwatcher,  \* the fsnotify watcher: "none" | "active" | "empty" | "closed"
    wat,  \* position of Watch
    whistory  \* history: appends and truncations of the file, truncations Watch detected

WatcherVars == <<wconfig, wdisk, woffset, wposition, wemitted, wctx, wwatcher, wat, whistory>>

PluginVars == <<LineVars, WorkerVars, ParserVars, WatcherVars>>

HelperVars == <<CopyVars, DecodeVars, DurationVars, ExprVars, PluginVars>>

\* Everything but the variables of one of the parts above.
AroundLine == <<PipelineVars, InputVars, EntryVars, CopyVars, DecodeVars, DurationVars, ExprVars, WorkerVars, ParserVars, WatcherVars>>
AroundWorker == <<PipelineVars, InputVars, EntryVars, CopyVars, DecodeVars, DurationVars, ExprVars, LineVars, ParserVars, WatcherVars>>
AroundParser == <<PipelineVars, InputVars, EntryVars, CopyVars, DecodeVars, DurationVars, ExprVars, LineVars, WorkerVars, WatcherVars>>
AroundWatcher == <<PipelineVars, InputVars, EntryVars, CopyVars, DecodeVars, DurationVars, ExprVars, LineVars, WorkerVars, ParserVars>>

vars == <<PipelineVars, InputVars, EntryVars, HelperVars>>

(***************************************************************************)
(* Generic helpers on sequences and sets.                                  *)
(***************************************************************************)
Range(s) == {s[i] : i \in DOMAIN s}

Reverse(s) == [i \in 1..Len(s) |-> s[Len(s) + 1 - i]]

IsInjective(s) == \A i, j \in DOMAIN s : s[i] = s[j] => i = j

\* All orderings of the finite set S, as sequences.
Perms(S) == {s \in [1..Cardinality(S) -> S] : IsInjective(s)}

\* Sequences over S without repetition, of length at most n.
SeqsUpTo(S, n) ==
    UNION {{s \in [1..k -> S] : IsInjective(s)} : k \in 0..n}

\* Position of x in s (0 when absent).
IndexOf(s, x) ==
    IF \E i \in DOMAIN s : s[i] = x
    THEN CHOOSE i \in DOMAIN s : s[i] = x /\ \A j \in 1..(i - 1) : s[j] # x
    ELSE 0

Min(S) == CHOOSE x \in S : \A y \in S : x <= y

(***************************************************************************)
(* Operators.  An operator has an id and two capabilities; an operator     *)
(* that can output declares OutputIDs and, once wired, holds its resolved  *)
(* Outputs.                                                                *)
(***************************************************************************)
\* The operator ids in use.  A list handed to NewPipeline holds at most one
\* operator per name, counting repeated ids.
IdNames == <<"A", "B", "C">>

Ids == Range(IdNames)

\* Operator names are interchangeable, so the k-th operator of the list
\* either repeats an earlier id or takes the next unused name.
CanonicalIds(ops) ==
    \A k \in DOMAIN ops :
        \/ \E j \in 1..(k - 1) : ops[j].id = ops[k].id
        \/ ops[k].id = IdNames[Cardinality({ops[j].id : j \in 1..(k - 1)}) + 1]

\* input (emits only), transformer (receives and emits), output (receives only)
OperatorShapes ==
    [id : Ids, canProcess : {FALSE}, canOutput : {TRUE},
     OutputIDs : SeqsUpTo(Ids, MaxOutputs), Outputs : {<<>>}]
    \cup
    [id : Ids, canProcess : {TRUE}, canOutput : {TRUE},
     OutputIDs : SeqsUpTo(Ids, MaxOutputs), Outputs : {<<>>}]
    \cup
    [id : Ids, canProcess : {TRUE}, canOutput : {FALSE},
     OutputIDs : {<<>>}, Outputs : {<<>>}]

OperatorLists ==
    UNION {{ops \in [1..n -> OperatorShapes] : CanonicalIds(ops)} : n \in 1..Len(IdNames)}

NoGraph == [nodes |-> {}, edges |-> {}]

NoError == [kind |-> "nil", input_operator |-> "", output_operator |-> "",
            cycles |-> <<>>]

Err(kind, input, output) ==
    [kind |-> kind, input_operator |-> input, output_operator |-> output,
     cycles |-> <<>>]

(***************************************************************************)
(* helper.WriterOperator.SetOutputs: resolve the declared OutputIDs, in    *)
(* declaration order, against the operators of the set.                    *)
(***************************************************************************)
HasOperator(ops, id) == \E k \in DOMAIN ops : ops[k].id = id

\* The first operator of the list with the given id.
OperatorByID(ops, id) == ops[Min({k \in DOMAIN ops : ops[k].id = id})]

SetOutputs(op, ops) ==
    LET missing == {i \in DOMAIN op.OutputIDs : ~HasOperator(ops, op.OutputIDs[i])}
    IN  IF missing # {}
        THEN [err |-> Err("output not found", "", op.OutputIDs[Min(missing)]),
              op |-> op]
        ELSE [err |-> NoError, op |-> [op EXCEPT !.Outputs = op.OutputIDs]]

\* errors.WithDetails(err, "operator_id", operator.ID())
WithOperatorID(err, id) == [err EXCEPT !.input_operator = id]

(***************************************************************************)
(* setOperatorOutputs: set the outputs on operators that can output.       *)
(***************************************************************************)
RECURSIVE setOperatorOutputsFrom(_, _)
setOperatorOutputsFrom(ops, i) ==
    IF i > Len(ops) THEN [err |-> NoError, ops |-> ops]
    ELSE IF ~ops[i].canOutput THEN setOperatorOutputsFrom(ops, i + 1)
    ELSE LET r == SetOutputs(ops[i], ops)
         IN  IF r.err.kind # "nil"
             THEN [err |-> WithOperatorID(r.err, ops[i].id), ops |-> ops]
             ELSE setOperatorOutputsFrom([ops EXCEPT ![i] = r.op], i + 1)

\* Mutant of setOperatorOutputs: the error of SetOutputs is dropped.
RECURSIVE setOperatorOutputsDroppingFrom(_, _)
setOperatorOutputsDroppingFrom(ops, i) ==
    IF i > Len(ops) THEN [err |-> NoError, ops |-> ops]
    ELSE IF ~ops[i].canOutput THEN setOperatorOutputsDroppingFrom(ops, i + 1)
    ELSE setOperatorOutputsDroppingFrom(
             [ops EXCEPT ![i] = SetOutputs(ops[i], ops).op], i + 1)

setOperatorOutputsDropping(ops) == setOperatorOutputsDroppingFrom(ops, 1)

setOperatorOutputs(ops) == setOperatorOutputsFrom(ops, 1)

(***************************************************************************)
(* addNodes: add the operators as nodes; a node id that is already in the  *)
(* graph is an error.  Node ids are createNodeID(operator id), taken to be *)
(* injective, so a node is identified by its operator id.                  *)
(***************************************************************************)
RECURSIVE addNodesFrom(_, _, _)
addNodesFrom(g, ops, i) ==
    IF i > Len(ops) THEN [err |-> NoError, graph |-> g]
    ELSE IF ops[i].id \in g.nodes
         THEN [err |-> Err("already exists", ops[i].id, ""), graph |-> g]
         ELSE addNodesFrom([g EXCEPT !.nodes = @ \cup {ops[i].id}], ops, i + 1)

\* Mutant of addNodes: the check for a node that is already there is missing.
addNodesUnchecked(g, ops) ==
    [err |-> NoError, graph |-> [g EXCEPT !.nodes = @ \cup {ops[i].id : i \in DOMAIN ops}]]

addNodes(g, ops) == addNodesFrom(g, ops, 1)

\* createOperatorNode: the node's OutputIDs map, keyed by output operator id
\* (one entry per distinct resolved output of an operator that can output).
NodeOutputIDs(ops, id) ==
    LET op == OperatorByID(ops, id)
    IN  IF op.canOutput THEN Range(op.Outputs) ELSE {}

(***************************************************************************)
(* connectNode: connect a node to its outputs.  `outs` is the order in     *)
(* which the range over the OutputIDs map yields the outputs.              *)
(* simple.DirectedGraph.SetEdge panics when asked for a self edge.         *)
(***************************************************************************)
Panic == Err("panic", "", "")

\* Mutant of connectNode: the CanProcess check is missing.
RECURSIVE connectNodeAnyOutput(_, _, _, _)
connectNodeAnyOutput(g, ops, inputNode, outs) ==
    IF outs = <<>> THEN [err |-> NoError, graph |-> g]
    ELSE LET outputNode == Head(outs)
         IN  IF outputNode \notin g.nodes
             THEN [err |-> Err("output does not exist", inputNode, outputNode),
                   graph |-> g]
             ELSE IF <<inputNode, outputNode>> \in g.edges
             THEN [err |-> Err("connection already exists", inputNode, outputNode),
                   graph |-> g]
             ELSE IF inputNode = outputNode
             THEN [err |-> Panic, graph |-> g]
             ELSE connectNodeAnyOutput(
                      [g EXCEPT !.edges = @ \cup {<<inputNode, outputNode>>}],
                      ops, inputNode, Tail(outs))

RECURSIVE connectNode(_, _, _, _)
connectNode(g, ops, inputNode, outs) ==
    IF outs = <<>> THEN [err |-> NoError, graph |-> g]
    ELSE LET outputNode == Head(outs)
         IN  IF outputNode \notin g.nodes
             THEN [err |-> Err("output does not exist", inputNode, outputNode),
                   graph |-> g]
             ELSE IF ~OperatorByID(ops, outputNode).canProcess
             THEN [err |-> Err("can not process", inputNode, outputNode),
                   graph |-> g]
             ELSE IF <<inputNode, outputNode>> \in g.edges
             THEN [err |-> Err("connection already exists", inputNode, outputNode),
                   graph |-> g]
             ELSE IF inputNode = outputNode
             THEN [err |-> Panic, graph |-> g]
             ELSE connectNode([g EXCEPT !.edges = @ \cup {<<inputNode, outputNode>>}],
                              ops, inputNode, Tail(outs))

(***************************************************************************)
(* The graph library: reachability, strongly connected components and      *)
(* topo.Sort.  topo.Sort returns the nodes in "from before to" order; when *)
(* no such order exists it returns topo.Unorderable, the cyclic components *)
(* of the graph, each with its members sorted by node id.                  *)
(***************************************************************************)
Succ(g, v) == {w \in g.nodes : <<v, w>> \in g.edges}

RECURSIVE ReachFrom(_, _, _)
ReachFrom(g, seen, frontier) ==
    IF frontier = {} THEN seen
    ELSE LET next == UNION {Succ(g, v) : v \in frontier} \ seen
         IN  ReachFrom(g, seen \cup next, next)

\* w is reachable from v along at least one edge
Reaches(g, v, w) == w \in ReachFrom(g, {}, {v})

IsAcyclic(g) == \A v \in g.nodes : ~Reaches(g, v, v)

SCC(g, v) == {v} \cup {w \in g.nodes : Reaches(g, v, w) /\ Reaches(g, w, v)}

CyclicComponents(g) == {SCC(g, v) : v \in {u \in g.nodes : Reaches(g, u, u)}}

\* The orders topo.Sort can return for an acyclic graph.
TopoSorts(g) ==
    {s \in Perms(g.nodes) :
        \A i, j \in DOMAIN s : <<s[i], s[j]>> \in g.edges => i < j}

\* The members of component c in ascending node id order; idOrder lists the
\* operator ids by ascending createNodeID.
SortByID(c, idOrder) == SelectSeq(idOrder, LAMBDA x : x \in c)

\* The values topo.Unorderable can take: the cyclic components, each sorted
\* by id, in an order compatible with the edges between components.
Unorderables(g, idOrder) ==
    {[i \in DOMAIN cs |-> SortByID(cs[i], idOrder)] :
        cs \in {s \in Perms(CyclicComponents(g)) :
                  \A i, j \in DOMAIN s :
                      (i # j /\ \E v \in s[i], w \in s[j] : Reaches(g, v, w)) => i < j}}

(***************************************************************************)
(* unorderableToCycles: the text of the "cycles" detail, as a sequence of  *)
(* the pieces written to the strings.Builder.                              *)
(***************************************************************************)
RECURSIVE WriteNodes(_)
WriteNodes(cycle) ==
    IF cycle = <<>> THEN <<>>
    ELSE <<Head(cycle), " -> ">> \o WriteNodes(Tail(cycle))

WriteCycle(cycle) == <<"(">> \o WriteNodes(cycle) \o <<cycle[1], ")">>

RECURSIVE unorderableToCyclesFrom(_, _)
unorderableToCyclesFrom(err, i) ==
    IF i > Len(err) THEN <<>>
    ELSE (IF i # 1 THEN <<",">> ELSE <<>>) \o WriteCycle(err[i])
         \o unorderableToCyclesFrom(err, i + 1)

unorderableToCycles(err) == unorderableToCyclesFrom(err, 1)

(***************************************************************************)
(* connectNodes: connect every node, then reject a graph that has no       *)
(* topological order.  nodeOrder is the order graph.Nodes() yields the     *)
(* nodes in; outOrder ranks the ids to give each map range its order.      *)
(***************************************************************************)
RECURSIVE connectNodesFrom(_, _, _, _, _)
connectNodesFrom(g, ops, nodeOrder, outOrder, i) ==
    IF i > Len(nodeOrder) THEN [err |-> NoError, graph |-> g]
    ELSE LET node == nodeOrder[i]
             outs == SelectSeq(outOrder, LAMBDA x : x \in NodeOutputIDs(ops, node))
             r    == connectNode(g, ops, node, outs)
         IN  IF r.err.kind # "nil" THEN r
             ELSE connectNodesFrom(r.graph, ops, nodeOrder, outOrder, i + 1)

CircularError(unorderable) ==
    [kind |-> "circular dependency", input_operator |-> "", output_operator |-> "",
     cycles |-> unorderableToCycles(unorderable)]

\* The results connectNodes can return, over the iteration orders of the
\* graph's node set and of the OutputIDs maps and over the node id order.
connectNodes(g, ops) ==
    UNION {
        LET r == connectNodesFrom(g, ops, nodeOrder, outOrder, 1)
        IN  IF r.err.kind # "nil" THEN {r}
            ELSE IF ~IsAcyclic(r.graph)
            THEN {[err |-> CircularError(u), graph |-> r.graph] :
                     u \in UNION {Unorderables(r.graph, idOrder) :
                                     idOrder \in Perms(g.nodes)}}
            ELSE {r}
        : nodeOrder \in Perms(g.nodes), outOrder \in Perms(g.nodes)}

(***************************************************************************)
(* NewPipeline: the results it can return for a list of operators.         *)
(***************************************************************************)
NewPipelineResults(ops) ==
    LET so == setOperatorOutputs(ops)
    IN  IF so.err.kind # "nil"
        THEN {[err |-> so.err, graph |-> NoGraph, ops |-> so.ops]}
        ELSE LET an == addNodes(NoGraph, so.ops)
             IN  IF an.err.kind # "nil"
                 THEN {[err |-> an.err, graph |-> NoGraph, ops |-> so.ops]}
                 ELSE {[err |-> r.err,
                        graph |-> IF r.err.kind = "nil" THEN r.graph ELSE NoGraph,
                        ops |-> so.ops] : r \in connectNodes(an.graph, so.ops)}

(***************************************************************************)
(* Pipeline.Start: start the operators in reverse topological order.       *)
(* `failing` is the set of operators whose Start returns an error when it  *)
(* is called.                                                              *)
(***************************************************************************)
\* Mutant of StartIsNoop: the running check is missing.
StartNeverNoop(isRunning) == FALSE

\* if p.running { return nil }
StartIsNoop(isRunning) == isRunning

\* Mutant of StartOrder: the loop runs from the front of the sorted nodes.
StartOrderForward(sortedNodes) == sortedNodes

\* for i := len(sortedNodes) - 1; i >= 0; i--
StartOrder(sortedNodes) == Reverse(sortedNodes)

\* Position in order of the first operator of `failing` (0 when none).
FirstFailure(order, failing) ==
    IF \E i \in DOMAIN order : order[i] \in failing
    THEN Min({i \in DOMAIN order : order[i] \in failing})
    ELSE 0

\* Mutant of StartCalls: the loop goes on after an operator's Start failed.
StartCallsAll(order, failing) == order

\* The operators whose Start is called: the loop returns at the first error.
StartCalls(order, failing) ==
    IF FirstFailure(order, failing) = 0 THEN order
    ELSE SubSeq(order, 1, FirstFailure(order, failing))

\* The operator whose error Start returns ("" for a nil return).
StartError(order, failing) ==
    IF FirstFailure(order, failing) = 0 THEN ""
    ELSE order[FirstFailure(order, failing)]

\* Mutant of RunningAfterStart: p.running is never set.
NeverRunningAfterStart(order, failing) == FALSE

\* p.running = true is reached only when the loop ran to its end.
RunningAfterStart(order, failing) == FirstFailure(order, failing) = 0

Start ==
    /\ pstate = "built"
    /\ Len(runs) < MaxRuns
    /\ IF StartIsNoop(running)
       THEN /\ runs' = Append(runs, [op |-> "Start", noop |-> TRUE, calls |-> <<>>,
                                     failed |-> {}, err |-> ""])
            /\ UNCHANGED running
       ELSE \E sortedNodes \in TopoSorts(graph), failing \in SUBSET graph.nodes :
               LET order == StartOrder(sortedNodes)
                   calls == StartCalls(order, failing)
               IN  /\ runs' = Append(runs, [op |-> "Start", noop |-> FALSE,
                                            calls |-> calls,
                                            failed |-> Range(calls) \cap failing,
                                            err |-> StartError(order, failing)])
                   /\ running' = RunningAfterStart(order, failing)
    /\ UNCHANGED <<operators, pstate, graph, buildErr>>
    /\ UNCHANGED <<InputVars, EntryVars, HelperVars>>

(***************************************************************************)
(* Pipeline.Stop: stop the operators in topological order; the errors of   *)
(* the operators' Stop are discarded.                                      *)
(***************************************************************************)
\* if !p.running { return }
StopIsNoop(isRunning) == ~isRunning

\* Mutant of StopOrder: the loop runs from the back of the sorted nodes.
StopOrderBackward(sortedNodes) == Reverse(sortedNodes)

\* for _, node := range sortedNodes
StopOrder(sortedNodes) == sortedNodes

\* Mutant of StopCalls: the loop returns at the first error of a Stop.
StopCallsUntilError(order, failing) ==
    IF FirstFailure(order, failing) = 0 THEN order
    ELSE SubSeq(order, 1, FirstFailure(order, failing))

\* The operators whose Stop is called: _ = operator.Stop() never leaves the loop.
StopCalls(order, failing) == order

Stop ==
    /\ pstate = "built"
    /\ Len(runs) < MaxRuns
    /\ IF StopIsNoop(running)
       THEN /\ runs' = Append(runs, [op |-> "Stop", noop |-> TRUE, calls |-> <<>>,
                                     failed |-> {}, err |-> ""])
            /\ UNCHANGED running
       ELSE \E sortedNodes \in TopoSorts(graph), failing \in SUBSET graph.nodes :
               LET order == StopOrder(sortedNodes)
                   calls == StopCalls(order, failing)
               IN  /\ runs' = Append(runs, [op |-> "Stop", noop |-> FALSE,
                                            calls |-> calls,
                                            failed |-> Range(calls) \cap failing,
                                            err |-> ""])
                   /\ running' = FALSE
    /\ UNCHANGED <<operators, pstate, graph, buildErr>>
    /\ UNCHANGED <<InputVars, EntryVars, HelperVars>>

(***************************************************************************)
(* NewPipeline, as the one step that builds the pipeline from the list.    *)
(***************************************************************************)
NewPipeline ==
    /\ pstate = "new"
    /\ \E r \in NewPipelineResults(operators) :
          /\ operators' = r.ops
          /\ buildErr' = r.err
          /\ graph' = r.graph
          /\ pstate' = CASE r.err.kind = "nil"   -> "built"
                         [] r.err.kind = "panic" -> "panic"
                         [] OTHER                -> "failed"
    /\ UNCHANGED <<running, runs>>
    /\ UNCHANGED <<InputVars, EntryVars, HelperVars>>

PipelineInit ==
    /\ operators \in OperatorLists
    /\ pstate = "new"
    /\ graph = NoGraph
    /\ buildErr = NoError
    /\ running = FALSE
    /\ runs = <<>>

PipelineNext == NewPipeline \/ Start \/ Stop

(***************************************************************************)
(* The values the variables of a part hold while another part is studied.  *)
(***************************************************************************)
PipelineAbsent ==
    /\ operators = <<>>
    /\ pstate = "absent"
    /\ graph = NoGraph
    /\ buildErr = NoError
    /\ running = FALSE
    /\ runs = <<>>

JournaldAbsent ==
    /\ jstate = "absent"
    /\ jctx = "none"
    /\ jwg = 0
    /\ jproc = "none"
    /\ jnext = 0
    /\ jflusher = "none"
    /\ jreader = "none"
    /\ jcur = 0
    /\ jlock = "free"
    /\ jcache = 0
    /\ jdurable = 0
    /\ jstop = "idle"
    /\ jcounts = [starts |-> 0, stops |-> 0, crashes |-> 0]
    /\ jconfig = [OutputIDs |-> <<>>, malformed |-> {}, failing |-> {}]
    /\ jwritten = <<>>
    /\ jprocessed = <<>>
    /\ jcmd = [cursor |-> 0, args |-> <<>>]
    /\ jfinal = "none"

UDPAbsent ==
    /\ ustate = "absent"
    /\ uconn = "none"
    /\ uhandler = "none"
    /\ umessage = [message |-> "", err |-> "none"]
    /\ uwg = 0
    /\ ustop = "idle"
    /\ ucounts = [starts |-> 0, reads |-> 0, stops |-> 0]
    /\ uwritten = <<>>

EntryAbsent ==
    /\ entryRecord = "absent"
    /\ entryField = <<>>
    /\ entryArg = "absent"
    /\ entryCall = [op |-> "none"]
    /\ entryDest = "absent"

CopyAbsent ==
    /\ heap = <<>>
    /\ entries = <<>>
    /\ heapOp = [op |-> "absent", on |-> "none", calls |-> 0]

DecodeAbsent ==
    /\ registry = <<>>
    /\ builders = <<>>
    /\ decodes = <<>>

DurationAbsent ==
    /\ durationLiteral = "absent"
    /\ durationYAML = [err |-> "absent", Duration |-> 0]
    /\ durationJSON = [err |-> "absent", Duration |-> 0]

ExprAbsent ==
    /\ exprConfig = <<>>
    /\ exprString = [err |-> "absent", SubStrings |-> <<>>, SubExprs |-> <<>>]
    /\ exprRendered = [err |-> "absent", result |-> <<>>, outs |-> <<>>]

LineAbsent ==
    /\ journalLine = "absent"
    /\ journalParsed = [err |-> "absent"]

WorkerAbsent ==
    /\ jsonConfig = [field |-> "", destinationField |-> ""]
    /\ jsonInput = <<>>
    /\ jsonClosed = FALSE
    /\ jsonWorker = "absent"
    /\ jsonReceived = <<>>
    /\ jsonResult = [err |-> "absent"]
    /\ jsonOutput = <<>>
    /\ jsonWg = 0

ParserAbsent ==
    /\ parserOperator = [ParseFrom |-> <<>>, ParseTo |-> <<>>, TimeParser |-> [declared |-> FALSE, Preserve |-> FALSE]]
    /\ parserEntry = [Record |-> "absent", Timestamp |-> 0]
    /\ parserResult = [err |-> "absent", written |-> <<>>]

WatcherAbsent ==
    /\ wconfig = [startFromBeginning |-> FALSE, notify |-> FALSE]
    /\ wdisk = <<>>
    /\ woffset = 0
    /\ wposition = 0
    /\ wemitted = <<>>
    /\ wctx = "none"
    /\ wwatcher = "none"
    /\ wat = "absent"
    /\ whistory = [appends |-> 0, truncates |-> 0, restarts |-> 0]

PluginsAbsent == LineAbsent /\ WorkerAbsent /\ ParserAbsent /\ WatcherAbsent

HelpersAbsent == CopyAbsent /\ DecodeAbsent /\ DurationAbsent /\ ExprAbsent /\ PluginsAbsent

AroundLineAbsent ==
    /\ PipelineAbsent /\ JournaldAbsent /\ UDPAbsent /\ EntryAbsent
    /\ CopyAbsent /\ DecodeAbsent /\ DurationAbsent /\ ExprAbsent
    /\ WorkerAbsent /\ ParserAbsent /\ WatcherAbsent

AroundWorkerAbsent ==
    /\ PipelineAbsent /\ JournaldAbsent /\ UDPAbsent /\ EntryAbsent
    /\ CopyAbsent /\ DecodeAbsent /\ DurationAbsent /\ ExprAbsent
    /\ LineAbsent /\ ParserAbsent /\ WatcherAbsent

AroundParserAbsent ==
    /\ PipelineAbsent /\ JournaldAbsent /\ UDPAbsent /\ EntryAbsent
    /\ CopyAbsent /\ DecodeAbsent /\ DurationAbsent /\ ExprAbsent
    /\ LineAbsent /\ WorkerAbsent /\ WatcherAbsent

AroundWatcherAbsent ==
    /\ PipelineAbsent /\ JournaldAbsent /\ UDPAbsent /\ EntryAbsent
    /\ CopyAbsent /\ DecodeAbsent /\ DurationAbsent /\ ExprAbsent
    /\ LineAbsent /\ WorkerAbsent /\ ParserAbsent

\* A pipeline alone.
PipelineAlone == PipelineInit /\ JournaldAbsent /\ UDPAbsent /\ EntryAbsent /\ HelpersAbsent

SpecPipeline == PipelineAlone /\ [][PipelineNext]_vars

(***************************************************************************)
(* Properties of the pipeline package.                                     *)
(***************************************************************************)
\* The ids of the operators handed to NewPipeline.
OperatorIDs == {operators[k].id : k \in DOMAIN operators}

\* The edges the operators declare: emitter id -> declared output id.
DeclaredEdges ==
    UNION {{<<operators[k].id, o>> : o \in Range(operators[k].OutputIDs)} :
              k \in {j \in DOMAIN operators : operators[j].canOutput}}

StartRuns == {k \in DOMAIN runs : runs[k].op = "Start" /\ ~runs[k].noop}

StopRuns == {k \in DOMAIN runs : runs[k].op = "Stop" /\ ~runs[k].noop}

\* How many times id occurs in the sequence of calls.
Count(calls, id) == Cardinality({i \in DOMAIN calls : calls[i] = id})

\* C1: in every Pipeline.Start, for every edge emitter -> receiver of the
\* pipeline, an emitter whose Start is called has its receiver's Start called
\* before it.
C1_StartReceiverBeforeEmitter ==
    \A k \in StartRuns : \A e \in graph.edges :
        IndexOf(runs[k].calls, e[1]) # 0 =>
            /\ IndexOf(runs[k].calls, e[2]) # 0
            /\ IndexOf(runs[k].calls, e[2]) < IndexOf(runs[k].calls, e[1])

\* C1 witness: a Start that reached the emitter of an edge of a pipeline with
\* at least two edges.
C1_Witness ==
    /\ Cardinality(graph.edges) >= 2
    /\ \E k \in StartRuns : \E e \in graph.edges : e[1] \in Range(runs[k].calls)

\* C2: in every Pipeline.Stop of a running pipeline, for every edge
\* emitter -> receiver, the emitter's Stop is called before the receiver's Stop.
C2_StopEmitterBeforeReceiver ==
    \A k \in StopRuns : \A e \in graph.edges :
        /\ IndexOf(runs[k].calls, e[1]) # 0
        /\ IndexOf(runs[k].calls, e[2]) # 0
        /\ IndexOf(runs[k].calls, e[1]) < IndexOf(runs[k].calls, e[2])

\* C2 witness: a Stop of a running pipeline with at least two edges.
C2_Witness == Cardinality(graph.edges) >= 2 /\ StopRuns # {}

\* C3: a Pipeline.Start in which every operator's Start succeeds, followed by a
\* Pipeline.Stop, issues exactly one Start and exactly one Stop to every
\* operator of the list.
C3_OneStartOneStopPerOperator ==
    \A k \in StartRuns :
        (runs[k].failed = {} /\ k + 1 \in DOMAIN runs /\ runs[k + 1].op = "Stop") =>
            \A id \in OperatorIDs :
                /\ Count(runs[k].calls, id) = 1
                /\ Count(runs[k + 1].calls, id) = 1

\* C3 witness: a successful Start followed by a Stop, on three operators.
C3_Witness ==
    /\ Cardinality(OperatorIDs) = 3
    /\ \E k \in StartRuns :
          runs[k].failed = {} /\ k + 1 \in DOMAIN runs /\ runs[k + 1].op = "Stop"

\* C4 (as claimed): after a Pipeline.Start that an operator's error aborted, the
\* following Pipeline.Stop calls Stop on every operator that had been started.
C4_StopUndoesPartialStart ==
    \A k \in StartRuns :
        (runs[k].failed # {} /\ k + 1 \in DOMAIN runs /\ runs[k + 1].op = "Stop") =>
            \A id \in Range(runs[k].calls) \ runs[k].failed :
                id \in Range(runs[k + 1].calls)

\* C5: when an operator's Start returns an error, that call is the last of the
\* Pipeline.Start, its error is what Pipeline.Start returns, and the pipeline
\* is not running afterwards.
C5_StartStopsAtFirstError ==
    \A k \in StartRuns :
        runs[k].failed # {} =>
            /\ \A i \in DOMAIN runs[k].calls :
                  runs[k].calls[i] \in runs[k].failed => i = Len(runs[k].calls)
            /\ runs[k].err = runs[k].calls[Len(runs[k].calls)]
            /\ (k = Len(runs) => ~running)

\* C5 witness: a Start aborted before it reached every operator.
C5_Witness ==
    \E k \in StartRuns :
        runs[k].failed # {} /\ Len(runs[k].calls) < Cardinality(graph.nodes)

\* C6: Pipeline.Start on a running pipeline calls no operator and returns nil,
\* Pipeline.Stop on a pipeline that is not running calls no operator, and
\* neither changes the running flag.
C6_NoopWhenAlreadyThere ==
    [][Len(runs') = Len(runs) + 1 =>
          /\ (runs'[Len(runs')].op = "Start" /\ running) =>
                /\ runs'[Len(runs')].calls = <<>>
                /\ runs'[Len(runs')].err = ""
                /\ running' = running
          /\ (runs'[Len(runs')].op = "Stop" /\ ~running) =>
                /\ runs'[Len(runs')].calls = <<>>
                /\ running' = running]_vars

\* C6 witness: a Start on a running pipeline, on a pipeline that has operators
\* to start.
C6_Witness ==
    /\ graph.nodes # {}
    /\ Len(runs) = 2
    /\ runs[1].op = "Start" /\ runs[1].err = ""
    /\ runs[2].op = "Start" /\ runs[2].noop

\* C7: Pipeline.Stop on a running pipeline calls Stop on every operator, also
\* when some of the Stop calls return errors, and leaves the pipeline not
\* running.
C7_StopReachesEveryOperator ==
    \A k \in StopRuns :
        /\ Range(runs[k].calls) = OperatorIDs
        /\ (k = Len(runs) => ~running)

\* C7 witness: a Stop in which the first operator's Stop failed and that went
\* on to the others.
C7_Witness ==
    \E k \in StopRuns :
        /\ Len(runs[k].calls) >= 2
        /\ runs[k].calls[1] \in runs[k].failed
\* The graph the operators declare, whether or not it can be built.
DeclaredGraph ==
    [nodes |-> OperatorIDs \cup {e[2] : e \in DeclaredEdges}, edges |-> DeclaredEdges]

\* Nothing but a cycle can be wrong with the list: the ids are distinct and
\* every declared output is an operator of the list that can process entries.
WellWired ==
    /\ \A j, k \in DOMAIN operators : operators[j].id = operators[k].id => j = k
    /\ \A e \in DeclaredEdges :
          HasOperator(operators, e[2]) /\ OperatorByID(operators, e[2]).canProcess

\* C8 (as claimed): a pipeline NewPipeline returns is acyclic, and for declared
\* outputs that form a directed cycle NewPipeline returns the circular
\* dependency error and no pipeline.  The second half is stated for lists in
\* which nothing else is wrong, the reading that asks the least of the code.
C8_CycleIsReportedAsError ==
    pstate # "new" =>
        /\ pstate = "built" => IsAcyclic(graph)
        /\ (WellWired /\ ~IsAcyclic(DeclaredGraph)) =>
              /\ pstate = "failed"
              /\ buildErr.kind = "circular dependency"
              /\ graph = NoGraph

\* C9 (as claimed): the text of the circular dependency error joins ids with
\* " -> " along edges of the declared graph, the closing id included.
C9_CycleTextFollowsEdges ==
    buildErr.kind = "circular dependency" =>
        /\ buildErr.cycles # <<>>
        /\ \A i \in 1..(Len(buildErr.cycles) - 2) :
              buildErr.cycles[i + 1] = " -> " =>
                  <<buildErr.cycles[i], buildErr.cycles[i + 2]>> \in DeclaredEdges

\* The emitters that declare an output id no operator of the list has.
Unresolved ==
    {e \in DeclaredEdges : ~HasOperator(operators, e[2])}

\* C10: when an operator that can output declares an output id that no operator
\* of the list has, NewPipeline returns no pipeline and an "output not found"
\* error that names such an emitter and the missing output it declares.
C10_UnresolvedOutputIsFatal ==
    (pstate # "new" /\ Unresolved # {}) =>
        /\ pstate = "failed"
        /\ graph = NoGraph
        /\ buildErr.kind = "output not found"
        /\ <<buildErr.input_operator, buildErr.output_operator>> \in Unresolved

\* C10 witness: the error names an emitter that is not the first operator of
\* the list, in a list whose first operator can output too.
C10_Witness ==
    /\ pstate = "failed"
    /\ buildErr.kind = "output not found"
    /\ Len(operators) >= 2
    /\ operators[1].canOutput
    /\ buildErr.input_operator # operators[1].id
\* C11: NewPipeline returns an error when two operators of the list have the
\* same id, and a pipeline it returns has pairwise distinct operator ids and
\* exactly one node per operator of the list.
C11_DuplicateIdIsFatal ==
    pstate # "new" =>
        /\ (\E j, k \in DOMAIN operators : j # k /\ operators[j].id = operators[k].id)
              => (pstate = "failed" /\ graph = NoGraph)
        /\ pstate = "built" =>
              /\ \A j, k \in DOMAIN operators :
                    operators[j].id = operators[k].id => j = k
              /\ graph.nodes = OperatorIDs
              /\ Cardinality(graph.nodes) = Len(operators)

\* C11 witness: addNodes rejected the third operator of a list whose outputs
\* all resolve.
C11_Witness ==
    /\ pstate = "failed"
    /\ buildErr.kind = "already exists"
    /\ Len(operators) = 3
    /\ operators[1].id # operators[2].id
    /\ DeclaredEdges # {}

\* The declared outputs that name an operator of the list that cannot process.
NonReceiverOutputs ==
    {e \in DeclaredEdges :
        HasOperator(operators, e[2]) /\ ~OperatorByID(operators, e[2]).canProcess}

\* C12: NewPipeline returns no pipeline when a declared output is an operator
\* with CanProcess() = false, and in a pipeline it returns the target of every
\* edge can process entries.
C12_OutputMustBeReceiver ==
    pstate # "new" =>
        /\ NonReceiverOutputs # {} => (pstate # "built" /\ graph = NoGraph)
        /\ pstate = "built" =>
              \A e \in graph.edges : OperatorByID(operators, e[2]).canProcess

\* C12 witness: connectNode rejected an output that cannot process, in a list
\* that also holds a connectable edge.
C12_Witness ==
    /\ pstate = "failed"
    /\ buildErr.kind = "can not process"
    /\ <<buildErr.input_operator, buildErr.output_operator>> \in NonReceiverOutputs
    /\ DeclaredEdges \ NonReceiverOutputs # {}

(***************************************************************************)
(* Part II.  Input operators.                                              *)
(*                                                                         *)
(* JournaldInput reads the lines of a journalctl subprocess in a reader    *)
(* goroutine and flushes its persister every second in a flusher           *)
(* goroutine.  The journal is the lines 1..MaxEntries; the cursor of line  *)
(* n is n, and 0 stands for "no cursor".  A step of a goroutine is one     *)
(* statement of its loop; the steps of the two goroutines, of Stop and of  *)
(* the environment (journalctl dying, the host crashing) interleave.       *)
(***************************************************************************)
MaxEntries == 2

MaxStarts == 2

MaxStops == 2

MaxCrashes == 1

\* The OutputIDs a JournaldInput is configured with.
JournaldOutputLists == {<<"B">>, <<"B", "C">>, <<"C", "B">>}

\* failing: the outputs whose Process returns an error.
JournaldConfigs ==
    {c \in [OutputIDs : JournaldOutputLists, malformed : SUBSET (1..MaxEntries),
            failing : SUBSET {"B", "C"}] : c.failing \subseteq Range(c.OutputIDs)}

(***************************************************************************)
(* The persister: a working set in memory over a durable store.  Set and   *)
(* Sync are serialized by a lock.                                          *)
(***************************************************************************)
\* Mutant of PersisterMayEnter: Set and Sync take no lock.
PersisterEntersUnlocked(lock) == TRUE

\* Set and Sync enter the persister only while nobody else is inside.
PersisterMayEnter(lock) == lock = "free"

\* Load copies the stored keys into the working set.
PersisterLoad(durable) == durable

\* Sync writes the working set to the store in one transaction; a failed
\* transaction leaves the store as it was.
PersisterSync(cache, durable, ok) == IF ok /\ cache # 0 THEN cache ELSE durable

(***************************************************************************)
(* The writer: Write hands the entry to Process of every output, in the    *)
(* order of OutputIDs; the error of a Process is logged.                   *)
(***************************************************************************)
\* Mutant of Write: the loop returns at the first Process that fails.
WriteUntilError(outputIDs, e, failing) ==
    LET bad == {i \in DOMAIN outputIDs : outputIDs[i] \in failing}
        last == IF bad = {} THEN Len(outputIDs) ELSE Min(bad)
    IN  [i \in 1..last |-> [output |-> outputIDs[i], entry |-> e,
                            err |-> outputIDs[i] \in failing]]

Write(outputIDs, e, failing) ==
    [i \in 1..Len(outputIDs) |-> [output |-> outputIDs[i], entry |-> e,
                                  err |-> outputIDs[i] \in failing]]

(***************************************************************************)
(* JournaldInput.Start: load the persister, start journalctl after the     *)
(* saved cursor, spawn the flusher and the reader.  persist.Load,          *)
(* StdoutPipe and cmd.Start may fail; Start then returns the error with    *)
(* the new context and the new, empty wait group in place.                 *)
(***************************************************************************)
JournaldStartOutcomes == {"ok", "loadFailed", "cmdFailed"}

Flag(name, value) == [flag |-> name, value |-> value]

\* The args Build collects before it makes newCmd.
BuildArgs == <<Flag("--utc", 0), Flag("--output=json", 0), Flag("--follow", 0)>>

\* newCmd, were it to append to a copy of the args Build collected.
newCmdFromBuildArgs(args, cursor) ==
    [cursor |-> cursor,
     args |-> IF cursor # 0 THEN Append(BuildArgs, Flag("--after-cursor", cursor)) ELSE BuildArgs]

\* newCmd: the closure appends to the args variable it has captured, and
\* the command gets the args as they then are.
newCmd(args, cursor) ==
    [cursor |-> cursor,
     args |-> IF cursor # 0 THEN Append(args, Flag("--after-cursor", cursor)) ELSE args]

SyncResult(ok) == IF ok THEN "ok" ELSE "failed"

JournaldStart ==
    /\ jstate = "built" \/ (jstate \in {"started", "startFailed"} /\ jstop = "returned")
    /\ jcounts.starts < MaxStarts
    /\ \E outcome \in JournaldStartOutcomes :
          LET loaded == IF outcome = "loadFailed" THEN jcache ELSE PersisterLoad(jdurable)
          IN  /\ jcache' = loaded
              /\ jcmd' = IF outcome = "loadFailed" THEN jcmd ELSE newCmd(jcmd.args, loaded)
              /\ jctx' = "live"
              /\ IF outcome = "ok"
                 THEN /\ jstate' = "started"
                      /\ jproc' = "alive"
                      /\ jnext' = loaded + 1
                      /\ jwg' = 2
                      /\ jflusher' = "select"
                      /\ jreader' = "read"
                 ELSE /\ jstate' = "startFailed"
                      /\ jproc' = "none"
                      /\ jwg' = 0
                      /\ jflusher' = "none"
                      /\ jreader' = "none"
                      /\ UNCHANGED jnext
    /\ jstop' = "idle"
    /\ jcur' = 0
    /\ jcounts' = [jcounts EXCEPT !.starts = @ + 1]
    /\ jfinal' = "none"
    /\ UNCHANGED <<jlock, jdurable, jconfig, jwritten, jprocessed>>
    /\ UNCHANGED <<PipelineVars, UDPVars, EntryVars, HelperVars>>

(***************************************************************************)
(* The flusher goroutine:                                                  *)
(*   for { select { case <-ctx.Done(): return                              *)
(*                  case <-time.After(time.Second): syncOffsets() } }      *)
(* A select entered with the context already done can only return: its     *)
(* timer has not fired yet.  Positions: "select", "exiting" (a select      *)
(* entered after the cancel), "sync" (calling persist.Sync), "insync"      *)
(* (inside it), "logging" (syncOffsets logging the error), "done".         *)
(***************************************************************************)
FlusherSelect(ctx) == IF ctx = "done" THEN "exiting" ELSE "select"

FlusherTick ==
    /\ jflusher = "select"
    /\ jflusher' = "sync"
    /\ UNCHANGED <<jstate, jctx, jwg, jproc, jnext, jreader, jcur, jlock, jcache,
                   jdurable, jstop, jcounts, jconfig, jwritten, jprocessed,
                   jcmd, jfinal>>
    /\ UNCHANGED <<PipelineVars, UDPVars, EntryVars, HelperVars>>

FlusherSyncEnter ==
    /\ jflusher = "sync"
    /\ PersisterMayEnter(jlock)
    /\ jlock' = "flusher"
    /\ jflusher' = "insync"
    /\ UNCHANGED <<jstate, jctx, jwg, jproc, jnext, jreader, jcur, jcache,
                   jdurable, jstop, jcounts, jconfig, jwritten, jprocessed,
                   jcmd, jfinal>>
    /\ UNCHANGED <<PipelineVars, UDPVars, EntryVars, HelperVars>>

FlusherSyncLeave ==
    /\ jflusher = "insync"
    /\ \E ok \in BOOLEAN :
          /\ jdurable' = PersisterSync(jcache, jdurable, ok)
          /\ jflusher' = IF ok THEN FlusherSelect(jctx) ELSE "logging"
    /\ jlock' = "free"
    /\ UNCHANGED <<jstate, jctx, jwg, jproc, jnext, jreader, jcur, jcache,
                   jstop, jcounts, jconfig, jwritten, jprocessed, jcmd, jfinal>>
    /\ UNCHANGED <<PipelineVars, UDPVars, EntryVars, HelperVars>>

\* Mutant of FlusherLogs: the flusher returns at the error of a Sync.
FlusherLogsAndReturns ==
    /\ jflusher = "logging"
    /\ jflusher' = "done"
    /\ jwg' = jwg - 1
    /\ UNCHANGED <<jstate, jctx, jproc, jnext, jreader, jcur, jlock, jcache,
                   jdurable, jstop, jcounts, jconfig, jwritten, jprocessed,
                   jcmd, jfinal>>
    /\ UNCHANGED <<PipelineVars, UDPVars, EntryVars, HelperVars>>

\* syncOffsets logs the error of a failed Sync and returns to the loop.
FlusherLogs ==
    /\ jflusher = "logging"
    /\ jflusher' = FlusherSelect(jctx)
    /\ UNCHANGED <<jstate, jctx, jwg, jproc, jnext, jreader, jcur, jlock, jcache,
                   jdurable, jstop, jcounts, jconfig, jwritten, jprocessed,
                   jcmd, jfinal>>
    /\ UNCHANGED <<PipelineVars, UDPVars, EntryVars, HelperVars>>

FlusherExit ==
    /\ jflusher \in {"select", "exiting"}
    /\ jctx = "done"
    /\ jflusher' = "done"
    /\ jwg' = jwg - 1
    /\ UNCHANGED <<jstate, jctx, jproc, jnext, jreader, jcur, jlock, jcache,
                   jdurable, jstop, jcounts, jconfig, jwritten, jprocessed,
                   jcmd, jfinal>>
    /\ UNCHANGED <<PipelineVars, UDPVars, EntryVars, HelperVars>>

(***************************************************************************)
(* The reader goroutine:                                                   *)
(*   defer wg.Done(); defer syncOffsets()                                  *)
(*   for { line, err := ReadBytes('\n');  if err != nil { return }         *)
(*         entry, cursor, err := parseJournalEntry(line)                   *)
(*         if err != nil { continue }                                      *)
(*         persist.Set(lastReadCursorKey, cursor)                          *)
(*         Write(ctx, entry) }                                             *)
(* Positions: "read", "set" (calling persist.Set), "inset" (inside it),    *)
(* "write", "finalsync" and "infinalsync" (the deferred syncOffsets),      *)
(* "done".                                                                 *)
(***************************************************************************)
\* journalctl wrote line jnext before it died or is still running.
ReaderReadLine ==
    /\ jreader = "read"
    /\ jnext <= MaxEntries
    /\ jnext' = jnext + 1
    /\ IF jnext \in jconfig.malformed
       THEN UNCHANGED <<jreader, jcur>>
       ELSE jreader' = "set" /\ jcur' = jnext
    /\ UNCHANGED <<jstate, jctx, jwg, jproc, jflusher, jlock, jcache,
                   jdurable, jstop, jcounts, jconfig, jwritten, jprocessed,
                   jcmd, jfinal>>
    /\ UNCHANGED <<PipelineVars, UDPVars, EntryVars, HelperVars>>

\* Mutant of ReaderReadFails: the reader returns with no deferred syncOffsets.
ReaderReadFailsNoSync ==
    /\ jreader = "read"
    /\ jproc = "dead"
    /\ jreader' = "done"
    /\ jwg' = jwg - 1
    /\ UNCHANGED <<jstate, jctx, jproc, jnext, jflusher, jcur, jlock, jcache,
                   jdurable, jstop, jcounts, jconfig, jwritten, jprocessed,
                   jcmd, jfinal>>
    /\ UNCHANGED <<PipelineVars, UDPVars, EntryVars, HelperVars>>

\* ReadBytes fails once journalctl is dead and its output is drained.
ReaderReadFails ==
    /\ jreader = "read"
    /\ jproc = "dead"
    /\ jreader' = "finalsync"
    /\ UNCHANGED <<jstate, jctx, jwg, jproc, jnext, jflusher, jcur, jlock, jcache,
                   jdurable, jstop, jcounts, jconfig, jwritten, jprocessed,
                   jcmd, jfinal>>
    /\ UNCHANGED <<PipelineVars, UDPVars, EntryVars, HelperVars>>

ReaderSetEnter ==
    /\ jreader = "set"
    /\ PersisterMayEnter(jlock)
    /\ jlock' = "reader"
    /\ jreader' = "inset"
    /\ UNCHANGED <<jstate, jctx, jwg, jproc, jnext, jflusher, jcur, jcache,
                   jdurable, jstop, jcounts, jconfig, jwritten, jprocessed,
                   jcmd, jfinal>>
    /\ UNCHANGED <<PipelineVars, UDPVars, EntryVars, HelperVars>>

ReaderSetLeave ==
    /\ jreader = "inset"
    /\ jcache' = jcur
    /\ jlock' = "free"
    /\ jreader' = "write"
    /\ UNCHANGED <<jstate, jctx, jwg, jproc, jnext, jflusher, jcur,
                   jdurable, jstop, jcounts, jconfig, jwritten, jprocessed,
                   jcmd, jfinal>>
    /\ UNCHANGED <<PipelineVars, UDPVars, EntryVars, HelperVars>>

ReaderWrite ==
    /\ jreader = "write"
    /\ jwritten' = Append(jwritten, jcur)
    /\ jprocessed' = jprocessed \o Write(jconfig.OutputIDs, jcur, jconfig.failing)
    /\ jreader' = "read"
    /\ UNCHANGED <<jstate, jctx, jwg, jproc, jnext, jflusher, jcur, jlock, jcache,
                   jdurable, jstop, jcounts, jconfig, jcmd, jfinal>>
    /\ UNCHANGED <<PipelineVars, UDPVars, EntryVars, HelperVars>>

ReaderFinalSyncEnter ==
    /\ jreader = "finalsync"
    /\ PersisterMayEnter(jlock)
    /\ jlock' = "reader"
    /\ jreader' = "infinalsync"
    /\ UNCHANGED <<jstate, jctx, jwg, jproc, jnext, jflusher, jcur, jcache,
                   jdurable, jstop, jcounts, jconfig, jwritten, jprocessed,
                   jcmd, jfinal>>
    /\ UNCHANGED <<PipelineVars, UDPVars, EntryVars, HelperVars>>

\* The deferred syncOffsets returns, then the deferred wg.Done runs.
ReaderFinalSyncLeave ==
    /\ jreader = "infinalsync"
    /\ \E ok \in BOOLEAN :
          /\ jdurable' = PersisterSync(jcache, jdurable, ok)
          /\ jfinal' = SyncResult(ok)
    /\ jlock' = "free"
    /\ jreader' = "done"
    /\ jwg' = jwg - 1
    /\ UNCHANGED <<jstate, jctx, jproc, jnext, jflusher, jcur, jcache,
                   jstop, jcounts, jconfig, jwritten, jprocessed, jcmd>>
    /\ UNCHANGED <<PipelineVars, UDPVars, EntryVars, HelperVars>>

(***************************************************************************)
(* The journalctl subprocess.  exec.CommandContext kills it when the       *)
(* context is done; it may also exit by itself.  Either way its stdout     *)
(* closes.                                                                 *)
(***************************************************************************)
JournalctlKilled ==
    /\ jproc = "alive"
    /\ jctx = "done"
    /\ jproc' = "dead"
    /\ UNCHANGED <<jstate, jctx, jwg, jnext, jflusher, jreader, jcur, jlock, jcache,
                   jdurable, jstop, jcounts, jconfig, jwritten, jprocessed,
                   jcmd, jfinal>>
    /\ UNCHANGED <<PipelineVars, UDPVars, EntryVars, HelperVars>>

JournalctlExits ==
    /\ jproc = "alive"
    /\ jctx = "live"
    /\ jproc' = "dead"
    /\ UNCHANGED <<jstate, jctx, jwg, jnext, jflusher, jreader, jcur, jlock, jcache,
                   jdurable, jstop, jcounts, jconfig, jwritten, jprocessed,
                   jcmd, jfinal>>
    /\ UNCHANGED <<PipelineVars, UDPVars, EntryVars, HelperVars>>

(***************************************************************************)
(* JournaldInput.Stop: operator.cancel(); operator.wg.Wait(); return nil   *)
(***************************************************************************)
JournaldStopCall ==
    /\ jstate \in {"started", "startFailed"}
    /\ jstop \in {"idle", "returned"}
    /\ jcounts.stops < MaxStops
    /\ jctx' = "done"
    /\ jstop' = "waiting"
    /\ jcounts' = [jcounts EXCEPT !.stops = @ + 1]
    /\ UNCHANGED <<jstate, jwg, jproc, jnext, jflusher, jreader, jcur, jlock, jcache,
                   jdurable, jconfig, jwritten, jprocessed,
                   jcmd, jfinal>>
    /\ UNCHANGED <<PipelineVars, UDPVars, EntryVars, HelperVars>>

\* Mutant of JournaldStopReturn: Stop returns without wg.Wait().
JournaldStopReturnNoWait ==
    /\ jstop = "waiting"
    /\ jstop' = "returned"
    /\ UNCHANGED <<jstate, jctx, jwg, jproc, jnext, jflusher, jreader, jcur, jlock,
                   jcache, jdurable, jcounts, jconfig, jwritten, jprocessed,
                   jcmd, jfinal>>
    /\ UNCHANGED <<PipelineVars, UDPVars, EntryVars, HelperVars>>

JournaldStopReturn ==
    /\ jstop = "waiting"
    /\ jwg = 0
    /\ jstop' = "returned"
    /\ UNCHANGED <<jstate, jctx, jwg, jproc, jnext, jflusher, jreader, jcur, jlock,
                   jcache, jdurable, jcounts, jconfig, jwritten, jprocessed,
                   jcmd, jfinal>>
    /\ UNCHANGED <<PipelineVars, UDPVars, EntryVars, HelperVars>>

(***************************************************************************)
(* The host dies while the operator runs and is set up again: what lived   *)
(* in memory is gone, the database and what was handed downstream stay.    *)
(***************************************************************************)
JournaldCrash ==
    /\ jstate = "started"
    /\ jcounts.crashes < MaxCrashes
    /\ jstate' = "built"
    /\ jctx' = "none"
    /\ jwg' = 0
    /\ jproc' = "none"
    /\ jnext' = 0
    /\ jflusher' = "none"
    /\ jreader' = "none"
    /\ jcur' = 0
    /\ jlock' = "free"
    /\ jcache' = 0
    /\ jstop' = "idle"
    /\ jcounts' = [jcounts EXCEPT !.crashes = @ + 1]
    /\ jcmd' = [cursor |-> 0, args |-> BuildArgs]
    /\ jfinal' = "none"
    /\ UNCHANGED <<jdurable, jconfig, jwritten, jprocessed>>
    /\ UNCHANGED <<PipelineVars, UDPVars, EntryVars, HelperVars>>

\* The operator after Build, over a database that holds the cursor `stored`.
JournaldBuilt(stored) ==
    /\ jstate = "built"
    /\ jctx = "none"
    /\ jwg = 0
    /\ jproc = "none"
    /\ jnext = 0
    /\ jflusher = "none"
    /\ jreader = "none"
    /\ jcur = 0
    /\ jlock = "free"
    /\ jcache = 0
    /\ jdurable = stored
    /\ jstop = "idle"
    /\ jcounts = [starts |-> 0, stops |-> 0, crashes |-> 0]
    /\ jconfig \in JournaldConfigs
    /\ jwritten = <<>>
    /\ jprocessed = <<>>
    /\ jcmd = [cursor |-> 0, args |-> BuildArgs]
    /\ jfinal = "none"

JournaldInit == JournaldBuilt(0)

FlusherNext ==
    FlusherTick \/ FlusherSyncEnter \/ FlusherSyncLeave \/ FlusherLogs \/ FlusherExit

ReaderNext ==
    \/ ReaderReadLine \/ ReaderReadFails \/ ReaderSetEnter \/ ReaderSetLeave
    \/ ReaderWrite \/ ReaderFinalSyncEnter \/ ReaderFinalSyncLeave

JournaldNext ==
    \/ JournaldStart \/ FlusherNext \/ ReaderNext \/ JournalctlKilled \/ JournalctlExits
    \/ JournaldStopCall \/ JournaldStopReturn \/ JournaldCrash

\* A JournaldInput alone.
JournaldAlone ==
    JournaldInit /\ PipelineAbsent /\ UDPAbsent /\ EntryAbsent /\ HelpersAbsent

SpecJournald == JournaldAlone /\ [][JournaldNext]_vars

\* A JournaldInput built over the database an earlier run of the agent left,
\* which may hold a cursor.
JournaldOverDatabase ==
    /\ \E stored \in 0..MaxEntries : JournaldBuilt(stored)
    /\ jconfig.OutputIDs = <<"B">>
    /\ jconfig.failing = {}
    /\ PipelineAbsent /\ UDPAbsent /\ EntryAbsent /\ HelpersAbsent

SpecJournaldRestart == JournaldOverDatabase /\ [][JournaldNext]_vars

(***************************************************************************)
(* Properties of JournaldInput.                                            *)
(***************************************************************************)
\* The well-formed journal lines a restart from the stored cursor never reads.
BehindDurableCursor == {c \in 1..jdurable : c \notin jconfig.malformed}

\* C13: the cursor in the database is the cursor of an entry that was handed
\* to Write, and so is every well-formed journal line before it: a restart
\* from the stored cursor skips no entry that was never dispatched, whatever
\* the interleaving of the reader and the flusher.
C13_CursorDurableOnlyAfterWrite == BehindDurableCursor \subseteq Range(jwritten)

\* C14: the flusher goroutine is never inside persist.Sync while the reader
\* goroutine is inside persist.Set on the same persister.
C14_SyncNeverOverlapsSet == ~(jflusher = "insync" /\ jreader = "inset")

\* C14 witness: the flusher's tick has called Sync while the reader is inside
\* Set, and the flusher waits.
C14_Witness == jflusher = "sync" /\ jreader = "inset" /\ jlock = "reader"

(***************************************************************************)
(* UDPInput: Start opens the connection and spawns the message handler;    *)
(* the handler reads a message, wraps it in an entry and writes it, until  *)
(* a read fails with "use of closed network connection".                   *)
(***************************************************************************)
MaxReads == 2

UDPStart ==
    /\ ustate = "built" \/ ustop = "returned" \/ ustate = "startFailed"
    /\ ucounts.starts < MaxStarts
    /\ \E listening \in BOOLEAN :
          IF listening
          THEN /\ ustate' = "started"
               /\ uconn' = "open"
               /\ uwg' = 1
               /\ uhandler' = "read"
          ELSE /\ ustate' = "startFailed"
               /\ uwg' = 0
               /\ UNCHANGED <<uconn, uhandler>>
    /\ ustop' = "idle"
    /\ umessage' = [message |-> "", err |-> "none"]
    /\ ucounts' = [ucounts EXCEPT !.starts = @ + 1]
    /\ UNCHANGED uwritten
    /\ UNCHANGED <<PipelineVars, JournaldVars, EntryVars, HelperVars>>

\* strings.Contains(err.Error(), "closed network connection")
isExpectedClose(err) == err = "use of closed network connection"

\* What the loop does with the result of readMessage: leave, or write an entry.
HandlerLeaves(err) == err # "nil" /\ isExpectedClose(err)

\* readMessage on the open connection returns a message or another error
\* than the close; on the closed connection it returns the close error.
ReadResults(conn) ==
    IF conn = "closed"
    THEN {[message |-> "", err |-> "use of closed network connection"]}
    ELSE {[message |-> "message", err |-> "nil"], [message |-> "", err |-> "read failed"]}

HandlerRead ==
    /\ uhandler = "read"
    /\ uconn = "closed" \/ ucounts.reads < MaxReads
    /\ \E r \in ReadResults(uconn) :
          IF HandlerLeaves(r.err)
          THEN /\ uhandler' = "done"
               /\ uwg' = uwg - 1
               /\ UNCHANGED <<umessage, ucounts>>
          ELSE /\ uhandler' = "write"
               /\ umessage' = r
               /\ ucounts' = [ucounts EXCEPT !.reads = @ + 1]
               /\ UNCHANGED uwg
    /\ UNCHANGED <<ustate, uconn, ustop, uwritten>>
    /\ UNCHANGED <<PipelineVars, JournaldVars, EntryVars, HelperVars>>

HandlerWrite ==
    /\ uhandler = "write"
    /\ uwritten' = Append(uwritten, [entry |-> umessage.message, read |-> umessage.err])
    /\ uhandler' = "read"
    /\ UNCHANGED <<ustate, uconn, umessage, uwg, ustop, ucounts>>
    /\ UNCHANGED <<PipelineVars, JournaldVars, EntryVars, HelperVars>>

(***************************************************************************)
(* UDPInput.Stop: u.cancel(); u.connection.Close(); u.waitGroup.Wait();    *)
(* return nil.  Close of a connection that is closed already returns an    *)
(* error, which Stop drops.                                                *)
(***************************************************************************)
UDPStopCall ==
    /\ ustate = "started"
    /\ ustop \in {"idle", "returned"}
    /\ ucounts.stops < MaxStops
    /\ uconn' = "closed"
    /\ ustop' = IF uconn = "closed" THEN "waitingCloseFailed" ELSE "waiting"
    /\ ucounts' = [ucounts EXCEPT !.stops = @ + 1]
    /\ UNCHANGED <<ustate, uhandler, umessage, uwg, uwritten>>
    /\ UNCHANGED <<PipelineVars, JournaldVars, EntryVars, HelperVars>>

\* Mutant of UDPStopResult: Stop returns the error of connection.Close().
UDPStopResultOfClose(closeFailed) == IF closeFailed THEN "failed" ELSE "returned"

\* return nil
UDPStopResult(closeFailed) == "returned"

UDPStopReturn ==
    /\ ustop \in {"waiting", "waitingCloseFailed"}
    /\ uwg = 0
    /\ ustop' = UDPStopResult(ustop = "waitingCloseFailed")
    /\ UNCHANGED <<ustate, uconn, uhandler, umessage, uwg, ucounts, uwritten>>
    /\ UNCHANGED <<PipelineVars, JournaldVars, EntryVars, HelperVars>>

UDPInit ==
    /\ ustate = "built"
    /\ uconn = "none"
    /\ uhandler = "none"
    /\ umessage = [message |-> "", err |-> "none"]
    /\ uwg = 0
    /\ ustop = "idle"
    /\ ucounts = [starts |-> 0, reads |-> 0, stops |-> 0]
    /\ uwritten = <<>>

HandlerNext == HandlerRead \/ HandlerWrite

UDPNext == UDPStart \/ HandlerNext \/ UDPStopCall \/ UDPStopReturn

(***************************************************************************)
(* One input operator, a JournaldInput or a UDPInput, with what the Go     *)
(* scheduler and the operating system guarantee: a goroutine that can take *)
(* a step takes one, a Wait whose counter is zero returns, and the         *)
(* journalctl process of a cancelled context is killed.  Calls of Start    *)
(* and Stop, arriving lines and messages, and crashes are not forced.      *)
(***************************************************************************)
\* Stop never looks at the outputs: the JournaldInput has the one output "B".
InputsInit ==
    /\ \/ JournaldInit /\ jconfig.OutputIDs = <<"B">> /\ jconfig.failing = {} /\ UDPAbsent
       \/ JournaldAbsent /\ UDPInit
    /\ PipelineAbsent
    /\ EntryAbsent
    /\ HelpersAbsent

InputsNext == JournaldNext \/ UDPNext

InputsFairness ==
    /\ WF_vars(FlusherNext)
    /\ WF_vars(ReaderNext)
    /\ WF_vars(JournalctlKilled)
    /\ WF_vars(JournaldStopReturn)
    /\ WF_vars(HandlerNext)
    /\ WF_vars(UDPStopReturn)

SpecInputsFair == InputsInit /\ [][InputsNext]_vars /\ InputsFairness

\* Stop has returned nil and no goroutine of the matching Start is left.
StopReturnedAfterGoroutines ==
    /\ jstop = "returned" => (jflusher \in {"none", "done"} /\ jreader \in {"none", "done"})
    /\ ustop = "returned" => uhandler \in {"none", "done"}
    /\ ustop # "failed"

\* C15: Stop of JournaldInput and of UDPInput returns only after every
\* goroutine spawned by the matching Start has exited and returns no error,
\* the second Stop included; and a Stop that waits does return once the
\* subprocess output (journald) or the connection (UDP) is closed.
C15_StopWaitsForGoroutines ==
    /\ []StopReturnedAfterGoroutines
    /\ (jstop = "waiting" /\ jproc # "alive") ~> (jstop # "waiting")
    /\ (ustop \in {"waiting", "waitingCloseFailed"} /\ uconn = "closed") ~> (ustop = "returned")

\* C15 witness: the second Stop of a JournaldInput that had dispatched an
\* entry has returned.
C15_Witness ==
    /\ jstop = "returned"
    /\ jcounts.stops = 2
    /\ jcounts.starts = 1
    /\ jwritten # <<>>

\* The entries one output has processed, in the order of its Process calls.
ProcessedBy(o) ==
    LET calls == SelectSeq(jprocessed, LAMBDA p : p.output = o)
    IN  [k \in 1..Len(calls) |-> calls[k].entry]

\* C16: every entry handed to Write has been handed to Process of every
\* output, in the order of OutputIDs and whether or not an earlier output
\* returned an error, before the next entry is; so every output has processed
\* the entries in the order the emitter produced them.
C16_WriteReachesEveryOutputInOrder ==
    LET n == Len(jconfig.OutputIDs)
    IN  /\ Len(jprocessed) = n * Len(jwritten)
        /\ \A k \in DOMAIN jwritten, i \in 1..n :
              /\ jprocessed[(k - 1) * n + i].output = jconfig.OutputIDs[i]
              /\ jprocessed[(k - 1) * n + i].entry = jwritten[k]
        /\ \A o \in Range(jconfig.OutputIDs) : ProcessedBy(o) = jwritten

\* C16 witness: two entries went to two outputs of which the first one
\* declared returns an error.
C16_Witness ==
    /\ jconfig.OutputIDs = <<"C", "B">>
    /\ jconfig.failing = {"C"}
    /\ jwritten = <<1, 2>>
    /\ Len(jprocessed) = 4
    /\ jprocessed[1].err /\ ~jprocessed[2].err

(***************************************************************************)
(* Part III.  The entry package.                                           *)
(*                                                                         *)
(* A value of Entry.Record is nil, a string, a number, or one of Go's map  *)
(* types: map[string]interface{} ("map", the only one a record field       *)
(* walks through), map[string]string ("stringmap") and                     *)
(* map[interface{}]interface{} ("anymap", a set of key/value pairs).       *)
(***************************************************************************)
Nil == [kind |-> "nil"]

Str(s) == [kind |-> "string", str |-> s]

Number(n) == [kind |-> "int", int |-> n]

Map(f) == [kind |-> "map", map |-> f]

StringMap(f) == [kind |-> "stringmap", map |-> f]

AnyMap(pairs) == [kind |-> "anymap", pairs |-> pairs]

EmptyMap == [k \in {} |-> Nil]

Keys == {"a", "b"}

MapsTo(values) == UNION {[d -> values] : d \in SUBSET Keys}

Leaves == {Nil, Str("x")}

\* The records a record field walks: maps nested two deep over the leaves.
WalkedRecords == Leaves \cup {Map(f) : f \in MapsTo(Leaves \cup {Map(g) : g \in MapsTo(Leaves)})}

\* The values under key "a" that only Entry.Read tells apart.
TypedValues ==
    {Number(1), StringMap(EmptyMap), StringMap([k \in {"a"} |-> "x"]), Map([k \in {"a"} |-> Number(1)]),
     AnyMap({}), AnyMap({<<Str("a"), Str("x")>>}), AnyMap({<<Number(1), Str("x")>>}),
     AnyMap({<<Str("a"), Number(1)>>}), AnyMap({<<Str("a"), Str("x")>>, <<Str("b"), Nil>>})}

EntryRecords == WalkedRecords \cup {Map([k \in {"a"} |-> v]) : v \in TypedValues}

MaxFieldLen == 3

\* The record fields: the paths of keys, the empty path included.
Fields == UNION {[1..k -> Keys] : k \in 0..MaxFieldLen}

\* The values handed to Set.
SetValues == {Nil, Str("y"), Map(EmptyMap), Map([k \in {"b"} |-> Str("y")])}

(***************************************************************************)
(* A record field: Get, Set and Delete walk Entry.Record along the path.   *)
(***************************************************************************)
RECURSIVE Get(_, _)
\* Get traverses; any missing or non-map intermediate gives (nil, false).
Get(record, field) ==
    IF field = <<>> THEN [value |-> record, ok |-> TRUE]
    ELSE IF record.kind # "map" THEN [value |-> Nil, ok |-> FALSE]
    ELSE IF Head(field) \notin DOMAIN record.map THEN [value |-> Nil, ok |-> FALSE]
    ELSE Get(record.map[Head(field)], Tail(field))

RECURSIVE SetOnlyExisting(_, _, _)
\* Mutant of Set: no intermediate mapping is created.
SetOnlyExisting(record, field, val) ==
    IF field = <<>> THEN val
    ELSE IF record.kind # "map" THEN record
    ELSE IF Len(field) > 1 /\ Head(field) \notin DOMAIN record.map THEN record
    ELSE Map([k \in DOMAIN record.map \cup {Head(field)} |->
                 IF k = Head(field)
                 THEN SetOnlyExisting(IF k \in DOMAIN record.map THEN record.map[k] ELSE Nil,
                                      Tail(field), val)
                 ELSE record.map[k]])

RECURSIVE Set(_, _, _)
\* Set with the empty path replaces the record; otherwise it writes the leaf,
\* putting a new mapping wherever the path meets no mapping.
Set(record, field, val) ==
    IF field = <<>> THEN val
    ELSE LET m == IF record.kind = "map" THEN record.map ELSE EmptyMap
             child == IF Head(field) \in DOMAIN m THEN m[Head(field)] ELSE Nil
         IN  Map([k \in DOMAIN m \cup {Head(field)} |->
                     IF k = Head(field) THEN Set(child, Tail(field), val) ELSE m[k]])

RECURSIVE DeletePruning(_, _)
\* Mutant of Delete: a parent mapping left empty is removed as well.
DeletePruning(record, field) ==
    IF field = <<>> THEN [record |-> Map(EmptyMap), value |-> record, ok |-> TRUE]
    ELSE IF record.kind # "map" \/ Head(field) \notin DOMAIN record.map
         THEN [record |-> record, value |-> Nil, ok |-> FALSE]
    ELSE IF Len(field) = 1
         THEN [record |-> Map([k \in DOMAIN record.map \ {Head(field)} |-> record.map[k]]),
               value |-> record.map[Head(field)], ok |-> TRUE]
    ELSE LET r == DeletePruning(record.map[Head(field)], Tail(field))
         IN  [record |-> IF r.ok /\ r.record = Map(EmptyMap)
                         THEN Map([k \in DOMAIN record.map \ {Head(field)} |-> record.map[k]])
                         ELSE Map([record.map EXCEPT ![Head(field)] = r.record]),
              value |-> r.value, ok |-> r.ok]

RECURSIVE DeleteToNil(_, _)
\* Mutant of Delete: the empty path leaves a nil Record behind.
DeleteToNil(record, field) ==
    IF field = <<>> THEN [record |-> Nil, value |-> record, ok |-> TRUE]
    ELSE IF record.kind # "map" \/ Head(field) \notin DOMAIN record.map
         THEN [record |-> record, value |-> Nil, ok |-> FALSE]
    ELSE IF Len(field) = 1
         THEN [record |-> Map([k \in DOMAIN record.map \ {Head(field)} |-> record.map[k]]),
               value |-> record.map[Head(field)], ok |-> TRUE]
    ELSE LET r == DeleteToNil(record.map[Head(field)], Tail(field))
         IN  [record |-> Map([record.map EXCEPT ![Head(field)] = r.record]),
              value |-> r.value, ok |-> r.ok]

RECURSIVE Delete(_, _)
\* Delete removes the leaf and returns it; the empty path clears the record
\* to an empty mapping and returns the prior record.
Delete(record, field) ==
    IF field = <<>> THEN [record |-> Map(EmptyMap), value |-> record, ok |-> TRUE]
    ELSE IF record.kind # "map" \/ Head(field) \notin DOMAIN record.map
         THEN [record |-> record, value |-> Nil, ok |-> FALSE]
    ELSE IF Len(field) = 1
         THEN [record |-> Map([k \in DOMAIN record.map \ {Head(field)} |-> record.map[k]]),
               value |-> record.map[Head(field)], ok |-> TRUE]
    ELSE LET r == Delete(record.map[Head(field)], Tail(field))
         IN  [record |-> Map([record.map EXCEPT ![Head(field)] = r.record]),
              value |-> r.value, ok |-> r.ok]

(***************************************************************************)
(* Entry.Read into a *map[string]string: readToStringMap.                  *)
(***************************************************************************)
\* case map[string]interface{}: every member must be a string.
CastMembers(m) ==
    IF \A k \in DOMAIN m : m[k].kind = "string"
    THEN [err |-> "nil", dest |-> StringMap([k \in DOMAIN m |-> m[k].str])]
    ELSE [err |-> "can not cast map members"]

\* case map[interface{}]interface{}: every key and every value must be a string.
CastPairs(pairs) ==
    IF \A q \in pairs : q[1].kind = "string" /\ q[2].kind = "string"
    THEN [err |-> "nil",
          dest |-> StringMap([k \in {q[1].str : q \in pairs} |->
                                 (CHOOSE q \in pairs : q[1].str = k)[2].str])]
    ELSE [err |-> "can not cast map key or value"]

\* The switch has the two cases above and no default: any other value leaves
\* the switch, and `return nil` follows with *dest untouched.
readToStringMap(record, field, dest) ==
    LET got == Get(record, field)
    IN  IF ~got.ok THEN [err |-> "field is missing", dest |-> dest]
        ELSE LET cast == CASE got.value.kind = "map"    -> CastMembers(got.value.map)
                           [] got.value.kind = "anymap" -> CastPairs(got.value.pairs)
                           [] OTHER                     -> [err |-> "nil", dest |-> dest]
             IN  IF cast.err = "nil" THEN cast ELSE [err |-> cast.err, dest |-> dest]

(***************************************************************************)
(* One call on an entry: Entry.Set, Entry.Get, Entry.Delete with a record  *)
(* field, or Entry.Read into a nil map[string]string.                      *)
(***************************************************************************)
NoCall == [op |-> "none", before |-> Nil, value |-> Nil, ok |-> FALSE, err |-> "nil"]

EntrySet ==
    /\ entryCall.op = "none"
    /\ \E field \in Fields, val \in SetValues :
          /\ entryRecord' = Set(entryRecord, field, val)
          /\ entryField' = field
          /\ entryArg' = val
    /\ entryCall' = [op |-> "Set", before |-> entryRecord, value |-> Nil, ok |-> TRUE,
                     err |-> "nil"]
    /\ UNCHANGED entryDest
    /\ UNCHANGED <<PipelineVars, InputVars, HelperVars>>

EntryGet ==
    /\ entryCall.op = "none"
    /\ \E field \in Fields :
          /\ entryField' = field
          /\ entryCall' = [op |-> "Get", before |-> entryRecord,
                           value |-> Get(entryRecord, field).value,
                           ok |-> Get(entryRecord, field).ok, err |-> "nil"]
    /\ UNCHANGED <<entryRecord, entryArg, entryDest>>
    /\ UNCHANGED <<PipelineVars, InputVars, HelperVars>>

EntryDelete ==
    /\ entryCall.op = "none"
    /\ \E field \in Fields :
          LET r == Delete(entryRecord, field)
          IN  /\ entryField' = field
              /\ entryRecord' = r.record
              /\ entryCall' = [op |-> "Delete", before |-> entryRecord, value |-> r.value,
                               ok |-> r.ok, err |-> "nil"]
    /\ UNCHANGED <<entryArg, entryDest>>
    /\ UNCHANGED <<PipelineVars, InputVars, HelperVars>>

EntryRead ==
    /\ entryCall.op = "none"
    /\ \E field \in Fields :
          LET r == readToStringMap(entryRecord, field, entryDest)
          IN  /\ entryField' = field
              /\ entryDest' = r.dest
              /\ entryCall' = [op |-> "Read", before |-> entryRecord, value |-> Nil,
                               ok |-> r.err = "nil", err |-> r.err]
    /\ UNCHANGED <<entryRecord, entryArg>>
    /\ UNCHANGED <<PipelineVars, InputVars, HelperVars>>

EntryInit ==
    /\ entryRecord \in EntryRecords
    /\ entryField = <<>>
    /\ entryArg = Nil
    /\ entryCall = NoCall
    /\ entryDest = Nil

EntryNext == EntrySet \/ EntryGet \/ EntryDelete \/ EntryRead

\* An entry alone.
EntryAlone ==
    EntryInit /\ PipelineAbsent /\ JournaldAbsent /\ UDPAbsent /\ HelpersAbsent

SpecEntry == EntryAlone /\ [][EntryNext]_vars

(***************************************************************************)
(* Properties of the entry package.                                        *)
(***************************************************************************)
\* The paths that leave the path of field at some key.
Diverging(field) ==
    {g \in Fields : \E i \in 1..Min({Len(field), Len(g)}) : g[i] # field[i]}

\* The proper, non-empty prefixes of field: its intermediate mappings.
Intermediates(field) == {SubSeq(field, 1, k) : k \in 1..(Len(field) - 1)}

\* What Get returned for a field before the call and returns after it.
GetBefore(field) == Get(entryCall.before, field)

GetAfter(field) == Get(entryRecord, field)

\* C17: after Set(E, F, v) with a non-empty record field F, Get(E, F) returns
\* (v, true); every intermediate of F is a mapping, and Get of every path
\* that leaves F returns what it returned before.
C17_GetReturnsWhatSetStored ==
    (entryCall.op = "Set" /\ entryField # <<>>) =>
        /\ GetAfter(entryField) = [value |-> entryArg, ok |-> TRUE]
        /\ \A g \in Intermediates(entryField) : GetAfter(g).ok /\ GetAfter(g).value.kind = "map"
        /\ \A g \in Diverging(entryField) : GetAfter(g) = GetBefore(g)

\* C17 witness: Set created an intermediate mapping in a record that holds
\* another key.
C17_Witness ==
    /\ entryCall.op = "Set"
    /\ Len(entryField) = 2
    /\ ~GetBefore(<<entryField[1]>>).ok
    /\ \E g \in Diverging(entryField) : Len(g) = 1 /\ GetAfter(g).ok

\* What C18 says of Delete(E, F), for the field of the last call.
DeleteReturnsAndRemoves ==
    IF GetBefore(entryField).ok
    THEN /\ entryCall.ok
         /\ entryCall.value = GetBefore(entryField).value
         /\ GetAfter(entryField) = [value |-> Nil, ok |-> FALSE]
         /\ \A g \in Intermediates(entryField) : GetAfter(g).ok /\ GetAfter(g).value.kind = "map"
         /\ \A g \in Diverging(entryField) : GetAfter(g) = GetBefore(g)
    ELSE /\ ~entryCall.ok
         /\ entryCall.value = Nil
         /\ entryRecord = entryCall.before

\* C18 as stated: for every field F, the empty one included, Delete(E, F)
\* returns what Get(E, F) returned and Get(E, F) then returns (nil, false).
C18_AsStated == entryCall.op = "Delete" => DeleteReturnsAndRemoves

\* C18: for every non-empty record field F with Get(E, F) = (v, true),
\* Delete(E, F) returns (v, true), Get(E, F) then returns (nil, false), and
\* the parent mappings and every other key stay; Delete of a missing field
\* returns (nil, false) and leaves the record as it was.
C18_DeleteRemovesTheLeaf ==
    (entryCall.op = "Delete" /\ entryField # <<>>) => DeleteReturnsAndRemoves

\* C18 witness: Delete removed the only key of a nested mapping, which stays
\* behind empty next to another key.
C18_Witness ==
    /\ entryCall.op = "Delete"
    /\ entryCall.ok
    /\ Len(entryField) = 2
    /\ GetAfter(<<entryField[1]>>) = [value |-> Map(EmptyMap), ok |-> TRUE]
    /\ \E g \in Diverging(entryField) : Len(g) = 1 /\ GetAfter(g).ok

\* C19: with the empty record field, Set replaces Record by the value, Get
\* returns (Record, true), and Delete returns (prior Record, true) and leaves
\* an empty mapping, whatever Record was, nil included.
C19_EmptyFieldIsTheRecord ==
    entryField = <<>> =>
        /\ entryCall.op = "Set" => entryRecord = entryArg
        /\ entryCall.op = "Get" =>
              /\ entryCall.ok /\ entryCall.value = entryRecord
              /\ entryRecord = entryCall.before
        /\ entryCall.op = "Delete" =>
              /\ entryCall.ok /\ entryCall.value = entryCall.before
              /\ entryRecord = Map(EmptyMap)

\* C19 witness: Delete with the empty field on a nil Record.
C19_Witness ==
    /\ entryCall.op = "Delete"
    /\ entryField = <<>>
    /\ entryCall.before = Nil
    /\ entryRecord = Map(EmptyMap)

\* C20: Entry.Read into a map[string]string returns no error exactly when it
\* has populated the destination from the field's value.
C20_ReadSucceedsIffPopulated ==
    entryCall.op = "Read" => (entryCall.err = "nil" <=> entryDest.kind = "stringmap")

(***************************************************************************)
(* Part IV - helpers.                                                      *)
(*                                                                         *)
(* Entry.Copy.  Go slices and maps are references: two entries may point   *)
(* to one object, and a store through one is seen through the other.  The  *)
(* heap is the sequence of the objects that exist, an address is an index  *)
(* into it, and an object is [kind, slots]: kind "strings" ([]string),     *)
(* "stringmap" (map[string]string), "map" (map[string]interface{}) or      *)
(* "seq" ([]interface{}); the slots of a slice are keyed "0", "1", ...     *)
(***************************************************************************)

\* The calls made on the entries of one behaviour.
MaxCalls == 4

Ref(a) == [kind |-> "ref", addr |-> a]

Object(kind, slots) == [kind |-> kind, slots |-> slots]

Put(f, k, v) == [x \in DOMAIN f \cup {k} |-> IF x = k THEN v ELSE f[x]]

Without(f, k) == [x \in DOMAIN f \ {k} |-> f[x]]

\* The values an entry is made of, written as trees; store puts one on the heap.
TagTrees == {Nil, Object("strings", [k \in {"0"} |-> Str("x")])}

LabelTrees == {Nil, Object("stringmap", [k \in {"a"} |-> Str("x")])}

RecordTrees ==
    {Nil, Str("x"),
     Object("map", EmptyMap),
     Object("map", [k \in {"a"} |-> Str("x")]),
     Object("map", [k \in {"a"} |-> Object("map", [j \in {"b"} |-> Str("x")])]),
     Object("map", [k \in {"a"} |-> Object("seq", [j \in {"0"} |-> Str("x")])]),
     Object("seq", [k \in {"0"} |-> Object("map", [j \in {"a"} |-> Str("x")])])}

IsTree(v) == "slots" \in DOMAIN v

RECURSIVE store(_, _)
RECURSIVE storeSlots(_, _, _, _)

\* store(tree, h): the tree's objects appended to h, and the value that
\* points to them.
store(tree, h) ==
    IF ~IsTree(tree) THEN [value |-> tree, heap |-> h]
    ELSE LET r == storeSlots(tree.slots, DOMAIN tree.slots, h, EmptyMap)
         IN  [value |-> Ref(Len(r.heap) + 1),
              heap  |-> Append(r.heap, Object(tree.kind, r.slots))]

storeSlots(slots, keys, h, acc) ==
    IF keys = {} THEN [slots |-> acc, heap |-> h]
    ELSE LET k == CHOOSE k \in keys : TRUE
             r == store(slots[k], h)
         IN  storeSlots(slots, keys \ {k}, r.heap, Put(acc, k, r.value))

RECURSIVE DeepValue(_, _)

\* What a value is worth on a heap: the tree below it.
DeepValue(v, h) ==
    IF v.kind # "ref" THEN v
    ELSE Object(h[v.addr].kind,
                [k \in DOMAIN h[v.addr].slots |-> DeepValue(h[v.addr].slots[k], h)])

RECURSIVE Reachable(_, _)

\* The addresses of the objects below a value.
Reachable(v, h) ==
    IF v.kind # "ref" THEN {}
    ELSE {v.addr} \cup UNION {Reachable(h[v.addr].slots[k], h) : k \in DOMAIN h[v.addr].slots}

RECURSIVE copyValue(_, _)
RECURSIVE copySlots(_, _, _, _)

\* copyValue: mappings and sequences are copied recursively into new
\* objects; primitives are shared.
copyValue(v, h) ==
    IF v.kind # "ref" THEN [value |-> v, heap |-> h]
    ELSE LET r == copySlots(h[v.addr].slots, DOMAIN h[v.addr].slots, h, EmptyMap)
         IN  [value |-> Ref(Len(r.heap) + 1),
              heap  |-> Append(r.heap, Object(h[v.addr].kind, r.slots))]

copySlots(slots, keys, h, acc) ==
    IF keys = {} THEN [slots |-> acc, heap |-> h]
    ELSE LET k == CHOOSE k \in keys : TRUE
             r == copyValue(slots[k], h)
         IN  copySlots(slots, keys \ {k}, r.heap, Put(acc, k, r.value))

\* copyStringArray: a new sequence with the same strings.
copyStringArray(v, h) ==
    IF v.kind # "ref" THEN [value |-> v, heap |-> h]
    ELSE [value |-> Ref(Len(h) + 1), heap |-> Append(h, h[v.addr])]

\* copyStringMap: a new mapping with the same pairs.
copyStringMap(v, h) ==
    IF v.kind # "ref" THEN [value |-> v, heap |-> h]
    ELSE [value |-> Ref(Len(h) + 1), heap |-> Append(h, h[v.addr])]

\* Copy with the Record handed over as it is: the copy points to the
\* original's record objects.
CopySharingRecord(entry, h) ==
    LET tags   == copyStringArray(entry.Tags, h)
        labels == copyStringMap(entry.Labels, tags.heap)
    IN  [entry |-> [Timestamp |-> entry.Timestamp,
                    Severity  |-> entry.Severity,
                    Tags      |-> tags.value,
                    Labels    |-> labels.value,
                    Record    |-> entry.Record],
         heap  |-> labels.heap]

\* Entry.Copy
Copy(entry, h) ==
    LET tags   == copyStringArray(entry.Tags, h)
        labels == copyStringMap(entry.Labels, tags.heap)
        record == copyValue(entry.Record, labels.heap)
    IN  [entry |-> [Timestamp |-> entry.Timestamp,
                    Severity  |-> entry.Severity,
                    Tags      |-> tags.value,
                    Labels    |-> labels.value,
                    Record    |-> record.value],
         heap  |-> record.heap]

Sides == {"e", "c"}

Other(s) == IF s = "e" THEN "c" ELSE "e"

\* The objects an entry points to, and what the entry is worth.
EntryObjects(s) ==
    Reachable(entries[s].Tags, heap) \cup Reachable(entries[s].Labels, heap)
        \cup Reachable(entries[s].Record, heap)

DeepEntry(s) ==
    [Timestamp |-> entries[s].Timestamp,
     Severity  |-> entries[s].Severity,
     Tags      |-> DeepValue(entries[s].Tags, heap),
     Labels    |-> DeepValue(entries[s].Labels, heap),
     Record    |-> DeepValue(entries[s].Record, heap)]

\* c := e.Copy()
EntryCopy ==
    /\ DOMAIN entries = {"e"}
    /\ LET r == Copy(entries["e"], heap)
       IN  /\ entries' = [s \in Sides |-> IF s = "e" THEN entries["e"] ELSE r.entry]
           /\ heap' = r.heap
    /\ heapOp' = [op |-> "Copy", on |-> "e", calls |-> heapOp.calls + 1]
    /\ UNCHANGED <<PipelineVars, InputVars, EntryVars, DecodeVars, DurationVars, ExprVars, PluginVars>>

\* entry.AddLabel(key, value)
AddLabel(s, key, value) ==
    /\ s \in DOMAIN entries
    /\ IF entries[s].Labels = Nil
         THEN /\ heap' = Append(heap, Object("stringmap", Put(EmptyMap, key, Str(value))))
              /\ entries' = [entries EXCEPT ![s].Labels = Ref(Len(heap) + 1)]
         ELSE /\ heap' = [heap EXCEPT ![entries[s].Labels.addr].slots = Put(@, key, Str(value))]
              /\ UNCHANGED entries
    /\ heapOp' = [op |-> "AddLabel", on |-> s, calls |-> heapOp.calls + 1]
    /\ UNCHANGED <<PipelineVars, InputVars, EntryVars, DecodeVars, DurationVars, ExprVars, PluginVars>>

IsMapAt(v, h) == v.kind = "ref" /\ h[v.addr].kind = "map"

RECURSIVE SetIn(_, _, _, _)

\* Set below the mapping at address a: intermediate mappings are made as
\* needed, the last key is assigned in place.
SetIn(h, a, field, val) ==
    IF Len(field) = 1 THEN [h EXCEPT ![a].slots = Put(@, field[1], val)]
    ELSE IF field[1] \in DOMAIN h[a].slots /\ IsMapAt(h[a].slots[field[1]], h)
         THEN SetIn(h, h[a].slots[field[1]].addr, Tail(field), val)
         ELSE LET new == Len(h) + 1
                  h2  == Append([h EXCEPT ![a].slots = Put(@, field[1], Ref(new))],
                                Object("map", EmptyMap))
              IN  SetIn(h2, new, Tail(field), val)

RECURSIVE DeleteIn(_, _, _)

\* Delete below the mapping at address a: the last key is removed in place.
DeleteIn(h, a, field) ==
    IF Len(field) = 1 THEN [h EXCEPT ![a].slots = Without(@, field[1])]
    ELSE IF field[1] \in DOMAIN h[a].slots /\ IsMapAt(h[a].slots[field[1]], h)
         THEN DeleteIn(h, h[a].slots[field[1]].addr, Tail(field))
         ELSE h

CopyFields == {<<>>, <<"a">>, <<"a", "b">>}

\* entry.Set(field, val) with a record field
RecordSet(s, field, val) ==
    /\ s \in DOMAIN entries
    /\ IF field = <<>>
         THEN /\ entries' = [entries EXCEPT ![s].Record = val]
              /\ UNCHANGED heap
         ELSE IF IsMapAt(entries[s].Record, heap)
         THEN /\ heap' = SetIn(heap, entries[s].Record.addr, field, val)
              /\ UNCHANGED entries
         ELSE /\ heap' = SetIn(Append(heap, Object("map", EmptyMap)), Len(heap) + 1, field, val)
              /\ entries' = [entries EXCEPT ![s].Record = Ref(Len(heap) + 1)]
    /\ heapOp' = [op |-> "Set", on |-> s, calls |-> heapOp.calls + 1]
    /\ UNCHANGED <<PipelineVars, InputVars, EntryVars, DecodeVars, DurationVars, ExprVars, PluginVars>>

\* entry.Delete(field) with a record field
RecordDelete(s, field) ==
    /\ s \in DOMAIN entries
    /\ IF field = <<>>
         THEN /\ heap' = Append(heap, Object("map", EmptyMap))
              /\ entries' = [entries EXCEPT ![s].Record = Ref(Len(heap) + 1)]
         ELSE /\ heap' = IF IsMapAt(entries[s].Record, heap)
                           THEN DeleteIn(heap, entries[s].Record.addr, field)
                           ELSE heap
              /\ UNCHANGED entries
    /\ heapOp' = [op |-> "Delete", on |-> s, calls |-> heapOp.calls + 1]
    /\ UNCHANGED <<PipelineVars, InputVars, EntryVars, DecodeVars, DurationVars, ExprVars, PluginVars>>

\* A change in place of an object reached through the entry: an element of
\* a sequence or of the tags is assigned, a key of a mapping is assigned.
StoreInPlace(s, a, k, value) ==
    /\ s \in DOMAIN entries
    /\ a \in EntryObjects(s)
    /\ k \in DOMAIN heap[a].slots \/ (k \in Keys /\ heap[a].kind \in {"map", "stringmap"})
    /\ heap' = [heap EXCEPT ![a].slots = Put(@, k, Str(value))]
    /\ UNCHANGED entries
    /\ heapOp' = [op |-> "Store", on |-> s, calls |-> heapOp.calls + 1, addr |-> a]
    /\ UNCHANGED <<PipelineVars, InputVars, EntryVars, DecodeVars, DurationVars, ExprVars, PluginVars>>

CopyInit ==
    /\ \E tagTree \in TagTrees, labelTree \in LabelTrees, recordTree \in RecordTrees :
          LET tags   == store(tagTree, <<>>)
              labels == store(labelTree, tags.heap)
              record == store(recordTree, labels.heap)
          IN  /\ heap = record.heap
              /\ entries = [s \in {"e"} |->
                               [Timestamp |-> "now", Severity |-> "default",
                                Tags |-> tags.value, Labels |-> labels.value,
                                Record |-> record.value]]
    /\ heapOp = [op |-> "none", on |-> "none", calls |-> 0]

EntryCall ==
    \/ EntryCopy
    \/ \E s \in Sides, key \in Keys : AddLabel(s, key, "new")
    \/ \E s \in Sides, field \in CopyFields : RecordSet(s, field, Str("new"))
    \/ \E s \in Sides, field \in CopyFields : RecordDelete(s, field)
    \/ \E s \in Sides, a \in 1..Len(heap), k \in {"a", "0"} : StoreInPlace(s, a, k, "new")

CopyNext == heapOp.calls < MaxCalls /\ EntryCall

CopyAlone ==
    /\ CopyInit
    /\ PipelineAbsent /\ JournaldAbsent /\ UDPAbsent /\ EntryAbsent
    /\ DecodeAbsent /\ DurationAbsent /\ ExprAbsent /\ PluginsAbsent

SpecCopy == CopyAlone /\ [][CopyNext]_vars

\* C21: once c == e.Copy() exists, a call that changes e's tags, labels or
\* record (AddLabel, Set, Delete, a store in place into a nested mapping or
\* sequence) leaves every field of c as it was, and a call on c leaves every
\* field of e as it was.
C21_CopyIsDeep ==
    [][\A s \in Sides :
          (DOMAIN entries = Sides /\ heapOp'.on = s /\ heapOp'.op # "Copy")
              => DeepEntry(Other(s))' = DeepEntry(Other(s))]_vars

\* C21 witness: after the copy, a store in place into a mapping nested in the
\* original's record has changed the original and the two entries differ.
C21_Witness ==
    /\ DOMAIN entries = Sides
    /\ heapOp.op = "Store" /\ heapOp.on = "e"
    /\ entries["e"].Record.kind = "ref"
    /\ heapOp.addr \in Reachable(entries["e"].Record, heap) \ {entries["e"].Record.addr}
    /\ DeepEntry("e").Record # DeepEntry("c").Record

(***************************************************************************)
(* Duration.  time.Duration is a 64-bit count of nanoseconds and a JSON    *)
(* number is a float64 with a 53-bit mantissa.  The widths are scaled down *)
(* together: a Duration has DurationBits bits, a float has MantissaBits    *)
(* bits of mantissa, and a second is Second ticks (like 10^9 it is not a   *)
(* power of two, and like 10^9 it is exact as a float).  A literal always  *)
(* fits the int that yaml puts it in, as a 64-bit literal is 64 bits wide. *)
(***************************************************************************)

DurationBits == 8

MantissaBits == 5

Second == 10

\* The seconds a literal may name.
MaxSeconds == 70

RECURSIVE Pow2(_)

Pow2(n) == IF n = 0 THEN 1 ELSE 2 * Pow2(n - 1)

MaxDuration == Pow2(DurationBits - 1) - 1

MinDuration == -Pow2(DurationBits - 1)

\* Two's complement arithmetic of time.Duration: the result modulo 2^DurationBits.
Wrap(n) ==
    LET m == n % Pow2(DurationBits)
    IN  IF m > MaxDuration THEN m - Pow2(DurationBits) ELSE m

Abs(n) == IF n < 0 THEN -n ELSE n

RECURSIVE Ulp(_)

\* The distance between neighbouring floats at magnitude n.
Ulp(n) == IF n < Pow2(MantissaBits) THEN 1 ELSE 2 * Ulp(n \div 2)

\* The float nearest to the integer n, ties to the even mantissa.
RoundToFloat(n) ==
    LET a == Abs(n)
        u == Ulp(a)
        q == a \div u
        r == a % u
        up == (2 * r > u) \/ (2 * r = u /\ q % 2 = 1)
        m == IF up THEN (q + 1) * u ELSE q * u
    IN  IF n < 0 THEN -m ELSE m

\* value * float64(time.Second)
FloatTimesSecond(f) == RoundToFloat(f * Second)

\* time.Duration(f): a float that fits converts exactly; the result for one
\* that does not fit is implementation-dependent.
FloatToDuration(f) ==
    IF f >= MinDuration /\ f <= MaxDuration THEN {f}
    ELSE {MinDuration, MaxDuration, Wrap(f)}

IntLiteral(n) == [kind |-> "int", int |-> n]

FloatLiteral(n) == [kind |-> "float", float |-> n]

BoolLiteral == [kind |-> "bool"]

DurationStrings == {"1s", "3s", "-3s", "3", ""}

DurationLiterals ==
    {IntLiteral(n) : n \in -MaxSeconds..MaxSeconds}
        \cup {FloatLiteral(n) : n \in -MaxSeconds..MaxSeconds}
        \cup {Str(t) : t \in DurationStrings}
        \cup {BoolLiteral}

\* What yaml's unmarshal puts in an interface{}: an integer is an int, a
\* number written with a fraction is a float64.
YAMLValue(literal) ==
    IF literal.kind = "float"
    THEN [kind |-> "float64", float |-> RoundToFloat(literal.float)]
    ELSE literal

\* What json.Unmarshal puts in an interface{}: every number is a float64.
JSONValue(literal) ==
    CASE literal.kind = "int"   -> [kind |-> "float64", float |-> RoundToFloat(literal.int)]
      [] literal.kind = "float" -> [kind |-> "float64", float |-> RoundToFloat(literal.float)]
      [] OTHER                  -> literal

Decoded(d) == [err |-> "nil", Duration |-> d]

DurationError(text) == [err |-> text, Duration |-> 0]

\* time.ParseDuration: a signed number with a unit; a missing unit or an
\* empty string is an error and the duration returned with it is 0.
ParseDuration(t) ==
    CASE t = "1s"  -> Decoded(1 * Second)
      [] t = "3s"  -> Decoded(3 * Second)
      [] t = "-3s" -> Decoded(-(3 * Second))
      [] t = "3"   -> DurationError("time: missing unit in duration")
      [] OTHER     -> DurationError("time: invalid duration")

\* durationFromInterface: the results it can give.
durationFromInterface(val) ==
    CASE val.kind = "float64" -> {Decoded(d) : d \in FloatToDuration(FloatTimesSecond(val.float))}
      [] val.kind = "int"     -> {Decoded(Wrap(val.int * Second))}
      [] val.kind = "string"  -> {ParseDuration(val.str)}
      [] OTHER                -> {DurationError("cannot unmarshal value of type")}

\* Duration.UnmarshalJSON
DurationUnmarshalJSON(literal) == durationFromInterface(JSONValue(literal))

\* Duration.UnmarshalYAML: a negative duration is multiplied by -1.
DurationUnmarshalYAML(literal) ==
    {[r EXCEPT !.Duration = IF @ < 0 THEN Wrap(@ * (-1)) ELSE @] :
        r \in durationFromInterface(YAMLValue(literal))}

Undecoded == [err |-> "undecoded", Duration |-> 0]

UnmarshalDurationYAML ==
    /\ durationLiteral \in DurationLiterals
    /\ durationYAML = Undecoded
    /\ durationYAML' \in DurationUnmarshalYAML(durationLiteral)
    /\ UNCHANGED <<durationLiteral, durationJSON>>
    /\ UNCHANGED <<PipelineVars, InputVars, EntryVars, CopyVars, DecodeVars, ExprVars, PluginVars>>

UnmarshalDurationJSON ==
    /\ durationLiteral \in DurationLiterals
    /\ durationJSON = Undecoded
    /\ durationJSON' \in DurationUnmarshalJSON(durationLiteral)
    /\ UNCHANGED <<durationLiteral, durationYAML>>
    /\ UNCHANGED <<PipelineVars, InputVars, EntryVars, CopyVars, DecodeVars, ExprVars, PluginVars>>

DurationInit ==
    /\ durationLiteral \in DurationLiterals
    /\ durationYAML = Undecoded
    /\ durationJSON = Undecoded

DurationNext == UnmarshalDurationYAML \/ UnmarshalDurationJSON

DurationAlone ==
    /\ DurationInit
    /\ PipelineAbsent /\ JournaldAbsent /\ UDPAbsent /\ EntryAbsent
    /\ CopyAbsent /\ DecodeAbsent /\ ExprAbsent /\ PluginsAbsent

SpecDuration == DurationAlone /\ [][DurationNext]_vars

\* C26: a duration literal that both decoders accept (a number, taken as
\* seconds, or a string of the duration grammar) decodes to the same
\* Duration through YAML and through JSON.
C26_SameDurationThroughYAMLAndJSON ==
    (durationYAML.err = "nil" /\ durationJSON.err = "nil")
        => durationYAML.Duration = durationJSON.Duration

\* C27: a Duration decoded through YAML is never negative, a negative
\* literal giving its absolute value, and JSON keeps the literal's sign.
C27_YAMLDurationNeverNegative ==
    /\ durationYAML.err = "nil" => durationYAML.Duration >= 0
    /\ (durationYAML.err = "nil" /\ durationLiteral.kind = "int"
          /\ Abs(durationLiteral.int) * Second <= MaxDuration)
          => durationYAML.Duration = Abs(durationLiteral.int) * Second
    /\ (durationJSON.err = "nil" /\ durationLiteral.kind = "int"
          /\ Abs(durationLiteral.int) * Second <= MaxDuration)
          => (durationJSON.Duration < 0 <=> durationLiteral.int < 0)

(***************************************************************************)
(* The registry and the configuration decoder.  A builder is a Go struct   *)
(* behind a pointer: builders is the sequence of the builder values that   *)
(* exist and an address is an index into it.  A document is the tree both  *)
(* its YAML and its JSON form stand for; an error text is the sequence of  *)
(* the phrases it is made of.                                              *)
(***************************************************************************)

MaxDecodes == 2

MaxRegistrations == 2

Missing == [kind |-> "missing"]

StringList(items) == [kind |-> "list", items |-> items]

GoTypes == {"FakeBuilder", "TimedBuilder"}

\* The types Register is called with, each with the builder type it names.
TypeNames == {"plugin", "timed"}

BuilderTypeOf(pluginType) == IF pluginType = "plugin" THEN "FakeBuilder" ELSE "TimedBuilder"

\* reflect.New of a builder type: every field has its zero value.
Zero(goType) ==
    [goType |-> goType, OperatorID |-> "", OperatorType |-> "", Array |-> Nil, Duration |-> 0]

\* A builder as a caller may hand it to Register: zero or with fields set.
Prototypes(goType) ==
    {Zero(goType),
     [Zero(goType) EXCEPT !.OperatorID = "proto",
                          !.Array = IF goType = "FakeBuilder" THEN StringList(<<"proto">>) ELSE Nil,
                          !.Duration = IF goType = "TimedBuilder" THEN Second ELSE 0]}

DocTypes == {Missing, Str(""), Str("plugin"), Str("timed"), Str("nonexist"), Number(123)}

DocArrays == {StringList(<<"test">>), Str("non-array-value")}

DocDurations == {IntLiteral(3), IntLiteral(-3), IntLiteral(7), BoolLiteral}

\* The operator documents: an id, a type tag, and the fields of a builder
\* type (or a key the builder type has no field for).
Documents ==
    {[id |-> Str("a"), type |-> t, array |-> Missing, duration |-> Missing] : t \in DocTypes}
    \cup
    {[id |-> Str("a"), type |-> Str("plugin"), array |-> a, duration |-> Missing] :
        a \in DocArrays}
    \cup
    {[id |-> Str("a"), type |-> Str("timed"), array |-> Missing, duration |-> d] :
        d \in DocDurations}
    \cup
    {[id |-> Str("a"), type |-> Str("plugin"), array |-> Missing, duration |-> IntLiteral(3)]}

Formats == {"json", "yaml"}

NoErr == <<>>

Contains(err, phrase) == \E i \in DOMAIN err : err[i] = phrase

\* Unmarshalling into struct{ID, Type string}: a missing key leaves "";
\* json refuses a number for a string field, yaml stores the scalar's text.
BaseConfig(format, doc) ==
    CASE doc.type.kind = "missing" -> [err |-> FALSE, Type |-> ""]
      [] doc.type.kind = "string"  -> [err |-> FALSE, Type |-> doc.type.str]
      [] OTHER -> IF format = "json" THEN [err |-> TRUE, Type |-> ""]
                                     ELSE [err |-> FALSE, Type |-> "123"]

\* Unmarshalling the document into a builder: the results it can give.
\* Keys the builder type has no field for are ignored.
unmarshalBuilder(format, doc, b) ==
    LET named == [b EXCEPT !.OperatorID = doc.id.str, !.OperatorType = doc.type.str]
        durations == IF format = "json" THEN DurationUnmarshalJSON(doc.duration)
                                        ELSE DurationUnmarshalYAML(doc.duration)
    IN  IF b.goType = "FakeBuilder"
        THEN CASE doc.array.kind = "missing" -> {[err |-> FALSE, value |-> named]}
               [] doc.array.kind = "list" ->
                      {[err |-> FALSE, value |-> [named EXCEPT !.Array = doc.array]]}
               [] OTHER -> {[err |-> TRUE, value |-> named]}
        ELSE IF doc.duration.kind = "missing"
             THEN {[err |-> FALSE, value |-> named]}
             ELSE {[err |-> r.err # "nil", value |-> [named EXCEPT !.Duration = r.Duration]] :
                      r \in durations}

\* registry[baseConfig.Type], whatever the tag asked for
LookupAny(reg, pluginType) == reg[CHOOSE t \in DOMAIN reg : t # pluginType \/ DOMAIN reg = {pluginType}]

\* registry[baseConfig.Type]
Lookup(reg, pluginType) == reg[pluginType]

\* The function Register stores, were it to return the registered builder.
builderFuncSingleton(registered, bs) == [addr |-> registered.proto, builders |-> bs]

\* The function Register stores: a new zero value of the registered
\* builder's type.
builderFunc(registered, bs) ==
    [addr |-> Len(bs) + 1, builders |-> Append(bs, Zero(registered.goType))]

Failed(format, doc, reg, err, factory, bs) ==
    [format |-> format, doc |-> doc, registry |-> reg, err |-> err,
     builder |-> 0, value |-> Zero("none"), factory |-> factory, builders |-> bs]

\* Config.UnmarshalJSON / Config.UnmarshalYAML: the results they can give.
ConfigUnmarshal(format, doc, reg, bs) ==
    LET baseConfig == BaseConfig(format, doc)
    IN  IF baseConfig.err
        THEN {Failed(format, doc, reg, <<"failed to unmarshal", format, "to base config">>, "", bs)}
        ELSE IF baseConfig.Type = ""
        THEN {Failed(format, doc, reg,
                     <<"failed to unmarshal", format, "to undefined plugin type">>, "", bs)}
        ELSE IF baseConfig.Type \notin DOMAIN reg
        THEN {Failed(format, doc, reg,
                     <<"failed to unmarshal", format, "to", "unsupported type", baseConfig.Type>>,
                     "", bs)}
        ELSE LET registered == Lookup(reg, baseConfig.Type)
                 made == builderFunc(registered, bs)
             IN  {IF r.err
                  THEN Failed(format, doc, reg,
                              <<"failed to unmarshal", format, "to", baseConfig.Type>>,
                              registered.tag, [made.builders EXCEPT ![made.addr] = r.value])
                  ELSE [format |-> format, doc |-> doc, registry |-> reg, err |-> NoErr,
                        builder |-> made.addr, value |-> r.value, factory |-> registered.tag,
                        builders |-> [made.builders EXCEPT ![made.addr] = r.value]] :
                     r \in unmarshalBuilder(format, doc, made.builders[made.addr])}

\* The calls of Register so far: the builders no decode has made.
Registrations == Len(builders) - Cardinality({i \in DOMAIN decodes : decodes[i].factory # ""})

\* Register(pluginType, builder).  Operators register from their package's
\* init function, before any configuration is decoded.
Register(pluginType, builder) ==
    /\ Registrations < MaxRegistrations
    /\ decodes = <<>>
    /\ builders' = Append(builders, builder)
    /\ registry' = Put(registry, pluginType,
                       [tag |-> pluginType, goType |-> builder.goType,
                        proto |-> Len(builders) + 1, registered |-> builder])
    /\ UNCHANGED decodes
    /\ UNCHANGED <<PipelineVars, InputVars, EntryVars, CopyVars, DurationVars, ExprVars, PluginVars>>

\* json.Unmarshal(raw, &cfg) or yaml.Unmarshal(raw, &cfg) of one document
Decode(format, doc) ==
    /\ Len(decodes) < MaxDecodes
    /\ \E r \in ConfigUnmarshal(format, doc, registry, builders) :
          /\ builders' = r.builders
          /\ decodes' = Append(decodes, [f \in DOMAIN r \ {"builders"} |-> r[f]])
    /\ UNCHANGED registry
    /\ UNCHANGED <<PipelineVars, InputVars, EntryVars, CopyVars, DurationVars, ExprVars, PluginVars>>

DecodeInit ==
    /\ registry = <<>>
    /\ builders = <<>>
    /\ decodes = <<>>

DecodeNext ==
    \/ \E pluginType \in TypeNames :
          \E builder \in Prototypes(BuilderTypeOf(pluginType)) : Register(pluginType, builder)
    \/ \E format \in Formats, doc \in Documents : Decode(format, doc)

DecodeAlone ==
    /\ DecodeInit
    /\ PipelineAbsent /\ JournaldAbsent /\ UDPAbsent /\ EntryAbsent
    /\ CopyAbsent /\ DurationAbsent /\ ExprAbsent /\ PluginsAbsent

SpecDecode == DecodeAlone /\ [][DecodeNext]_vars

Decodes == {decodes[i] : i \in DOMAIN decodes}

\* C22: decoding a document with no type field fails, through JSON and
\* through YAML, with an error whose text contains "missing required field",
\* and produces no builder.
C22_MissingTypeFails ==
    \A d \in Decodes :
        d.doc.type = Missing =>
            /\ Contains(d.err, "missing required field")
            /\ d.builder = 0

UnregisteredFails(d) ==
    d.doc.type.str \notin DOMAIN d.registry =>
        /\ Contains(d.err, "unsupported type")
        /\ d.builder = 0

RegisteredCallsItsFactory(d) ==
    d.doc.type.str \in DOMAIN d.registry =>
        /\ d.factory = d.doc.type.str
        /\ d.err = NoErr => /\ d.builder # 0
                            /\ d.value.goType = d.registry[d.doc.type.str].goType
                            /\ builders[d.builder].goType = d.value.goType

\* C23 as stated: every string type tag.
C23_AsStated ==
    \A d \in Decodes :
        d.doc.type.kind = "string" => UnregisteredFails(d) /\ RegisteredCallsItsFactory(d)

\* C23: decoding a document whose type is a non-empty string that is not
\* registered fails with an error containing "unsupported type"; decoding one
\* whose type is registered calls the factory registered for exactly that
\* type, and a builder it yields is of the type registered for the tag.
C23_TypeTagSelectsTheFactory ==
    \A d \in Decodes :
        (d.doc.type.kind = "string" /\ d.doc.type.str # "")
            => UnregisteredFails(d) /\ RegisteredCallsItsFactory(d)

\* C23 witness: with two types registered, a decode of one of them has
\* succeeded and a decode of an unregistered type has failed.
C23_Witness ==
    /\ DOMAIN registry = TypeNames
    /\ \E d \in Decodes : d.doc.type = Str("timed") /\ d.err = NoErr /\ d.registry = registry
    /\ \E d \in Decodes : d.doc.type = Str("nonexist") /\ Contains(d.err, "unsupported type")

FailsOnTypeTag(d) ==
    d.err # NoErr /\ d.factory = ""

\* C24: a document decoded from its YAML form and from its JSON form, under
\* the same registry, gives equal builders with equal field values, and the
\* one decode fails because of the type tag exactly when the other does.
C24_YAMLAndJSONDecodeAlike ==
    \A y, j \in Decodes :
        (y.format = "yaml" /\ j.format = "json" /\ y.doc = j.doc /\ y.registry = j.registry)
            => /\ FailsOnTypeTag(y) <=> FailsOnTypeTag(j)
               /\ (y.err = NoErr /\ j.err = NoErr) => y.value = j.value

\* C25: every decode gets a new builder from the factory: two decodes never
\* yield the same builder, a builder a decode has returned keeps the fields
\* that decode gave it, those fields are the document's on top of zero
\* values, and a builder passed to Register is never written to.
C25_EveryDecodeGetsAFreshBuilder ==
    /\ \A i, k \in DOMAIN decodes :
          (i # k /\ decodes[i].builder # 0) => decodes[i].builder # decodes[k].builder
    /\ \A d \in Decodes :
          d.builder # 0 =>
              /\ builders[d.builder] = d.value
              /\ d.value \in {r.value : r \in unmarshalBuilder(d.format, d.doc, Zero(d.value.goType))}
              /\ \A t \in DOMAIN registry : registry[t].proto # d.builder
    /\ \A t \in DOMAIN registry : builders[registry[t].proto] = registry[t].registered

\* C25 witness: with a builder registered that has fields set, two decodes
\* of its type have succeeded and their builders differ in a field.
C25_Witness ==
    /\ \E t \in DOMAIN registry : registry[t].registered # Zero(registry[t].goType)
    /\ Len(decodes) = 2
    /\ decodes[1].builder # 0 /\ decodes[2].builder # 0
    /\ decodes[1].doc.type = decodes[2].doc.type
    /\ decodes[1].registry = decodes[2].registry
    /\ decodes[1].value.goType = "FakeBuilder"
    /\ decodes[1].value.Array # Nil /\ decodes[2].value.Array = Nil
    /\ registry[decodes[1].doc.type.str].registered.Array # Nil

(***************************************************************************)
(* ExprString.  A string is the sequence of its characters, and indexes    *)
(* into it count from 0 as in the code.  The start token is scaled from    *)
(* the five characters of "EXPR(" to the two of "E(": like "EXPR(" it      *)
(* holds no end token, cannot overlap itself, and has a proper prefix that *)
(* may occur on its own.                                                   *)
(***************************************************************************)

MaxConfigLen == 7

Chars == {"E", "(", ")", "x"}

ExprStringConfigs == UNION {[1..n -> Chars] : n \in 0..MaxConfigLen}

exprStartToken == <<"E", "(">>

exprEndToken == <<")">>

\* s[from:to]
Slice(s, from, to) == SubSeq(s, from + 1, to)

HasAt(s, i, token) == i + Len(token) <= Len(s) /\ Slice(s, i, i + Len(token)) = token

Occurrences(s, token) == {i \in 0..Len(s) : HasAt(s, i, token)}

\* strings.Index: the first occurrence, or -1
Index(s, token) ==
    IF Occurrences(s, token) = {} THEN -1
    ELSE CHOOSE i \in Occurrences(s, token) : \A j \in Occurrences(s, token) : i <= j

\* strings.LastIndex, were it to stop at the first occurrence.
FirstIndex(s, token) == Index(s, token)

\* strings.LastIndex: the last occurrence, or -1
LastIndex(s, token) ==
    IF Occurrences(s, token) = {} THEN -1
    ELSE CHOOSE i \in Occurrences(s, token) : \A j \in Occurrences(s, token) : i >= j

\* The loop's exit test, were it to stop at the end of the string.
FinishedAtEnd(rangeStart, s) == rangeStart >= Len(s)

\* if rangeStart > len(s) { break }
Finished(rangeStart, s) == rangeStart > Len(s)

RECURSIVE PartitionWholeString(_, _, _, _)

\* The loop of Build, were the end token searched for in the whole rest of
\* the string and not only up to the next start token.
PartitionWholeString(s, rangeStart, subStrings, subExprStrings) ==
    LET found == Index(Slice(s, rangeStart, Len(s)), exprStartToken)
        indexStart == rangeStart + found
        afterStart == indexStart + Len(exprStartToken)
        foundEnd == LastIndex(Slice(s, indexStart, Len(s)), exprEndToken)
        indexEnd == indexStart + foundEnd
        remainder == [SubStrings |-> Append(subStrings, Slice(s, rangeStart, Len(s))),
                      SubExprStrings |-> subExprStrings]
    IN  IF found = -1 \/ foundEnd = -1 THEN remainder
        ELSE PartitionWholeString(s, indexEnd + Len(exprEndToken),
                                  Append(subStrings, Slice(s, rangeStart, indexStart)),
                                  Append(subExprStrings, Slice(s, afterStart, indexEnd)))

RECURSIVE Partition(_, _, _, _)

\* The loop of Build, entered with rangeStart and the two lists so far.
Partition(s, rangeStart, subStrings, subExprStrings) ==
    LET found == Index(Slice(s, rangeStart, Len(s)), exprStartToken)
        indexStart == rangeStart + found
        afterStart == indexStart + Len(exprStartToken)
        nextIndexStart == Index(Slice(s, afterStart, Len(s)), exprStartToken)
        rangeEnd == IF nextIndexStart = -1 THEN Len(s) ELSE afterStart + nextIndexStart
        foundEnd == LastIndex(Slice(s, indexStart, rangeEnd), exprEndToken)
        indexEnd == indexStart + foundEnd
        remainder == [SubStrings |-> Append(subStrings, Slice(s, rangeStart, Len(s))),
                      SubExprStrings |-> subExprStrings]
    IN  IF found = -1 THEN remainder
        ELSE IF foundEnd = -1 THEN remainder
        ELSE LET literals == Append(subStrings, Slice(s, rangeStart, indexStart))
                 exprs == Append(subExprStrings, Slice(s, afterStart, indexEnd))
             IN  IF Finished(indexEnd + Len(exprEndToken), s)
                 THEN [SubStrings |-> literals, SubExprStrings |-> exprs]
                 ELSE Partition(s, indexEnd + Len(exprEndToken), literals, exprs)

\* ExprStringConfig.Build: the results it can give.  expr.Compile may refuse
\* any expression; a program stands for the expression it was compiled from.
Build(config) ==
    LET parts == Partition(config, 0, <<>>, <<>>)
        built == [err |-> "nil", SubStrings |-> parts.SubStrings,
                  SubExprs |-> parts.SubExprStrings]
    IN  IF parts.SubExprStrings = <<>> THEN {built}
        ELSE {built, [err |-> "compile embedded expression", SubStrings |-> <<>>,
                      SubExprs |-> <<>>]}

\* What vm.Run can give for one program: a string, another value, an error.
RunResults == {[kind |-> "string", str |-> <<"x">>], [kind |-> "string", str |-> <<>>],
               [kind |-> "int", str |-> <<"7">>], [kind |-> "error", str |-> <<>>]}

\* out.(string), were every value taken for its text.
AsStringOfAnything(out) == [ok |-> TRUE, str |-> out.str]

\* outString, ok := out.(string)
AsString(out) == [ok |-> out.kind = "string", str |-> IF out.kind = "string" THEN out.str ELSE <<>>]

Rendered(text) == [err |-> "nil", result |-> text]

RenderError(text) == [err |-> text, result |-> <<>>]

RECURSIVE RenderFrom(_, _, _, _)

\* The loop of Render from index i (counted from 0) with the text b written
\* so far; an index outside SubStrings is a panic.
RenderFrom(e, outs, i, b) ==
    IF i < Len(e.SubExprs)
    THEN IF i + 1 > Len(e.SubStrings) THEN RenderError("panic: index out of range")
         ELSE IF outs[i + 1].kind = "error" THEN RenderError("render embedded expression")
         ELSE IF ~AsString(outs[i + 1]).ok
              THEN RenderError("embedded expression returned non-string")
         ELSE RenderFrom(e, outs, i + 1, b \o e.SubStrings[i + 1] \o AsString(outs[i + 1]).str)
    ELSE IF Len(e.SubStrings) = 0 THEN RenderError("panic: index out of range")
         ELSE Rendered(b \o e.SubStrings[Len(e.SubStrings)])

\* ExprString.Render, with outs what the programs return under env
Render(e, outs) == RenderFrom(e, outs, 0, <<>>)

Unbuilt == [err |-> "unbuilt", SubStrings |-> <<>>, SubExprs |-> <<>>]

Unrendered == [err |-> "unrendered", result |-> <<>>, outs |-> <<>>]

ExprBuild ==
    /\ exprString = Unbuilt
    /\ exprString' \in Build(exprConfig)
    /\ UNCHANGED <<exprConfig, exprRendered>>
    /\ UNCHANGED <<PipelineVars, InputVars, EntryVars, CopyVars, DecodeVars, DurationVars, PluginVars>>

ExprRender ==
    /\ exprString.err = "nil"
    /\ exprRendered = Unrendered
    /\ \E outs \in [1..Len(exprString.SubExprs) -> RunResults] :
          exprRendered' = [err |-> Render(exprString, outs).err,
                           result |-> Render(exprString, outs).result,
                           outs |-> outs]
    /\ UNCHANGED <<exprConfig, exprString>>
    /\ UNCHANGED <<PipelineVars, InputVars, EntryVars, CopyVars, DecodeVars, DurationVars, PluginVars>>

ExprInit ==
    /\ exprConfig \in ExprStringConfigs
    /\ exprString = Unbuilt
    /\ exprRendered = Unrendered

ExprNext == ExprBuild \/ ExprRender

ExprAlone ==
    /\ ExprInit
    /\ PipelineAbsent /\ JournaldAbsent /\ UDPAbsent /\ EntryAbsent
    /\ CopyAbsent /\ DecodeAbsent /\ DurationAbsent /\ PluginsAbsent

SpecExprString == ExprAlone /\ [][ExprNext]_vars

\* C28: every successful Build returns an ExprString with one more literal
\* than expressions, so Render never indexes outside SubStrings.
C28_OneMoreLiteralThanExpressions ==
    /\ exprString.err = "nil" => Len(exprString.SubStrings) = Len(exprString.SubExprs) + 1
    /\ exprRendered.err # "panic: index out of range"

\* C28 witness: a string that ends with an expression has been built and
\* rendered; its last literal is empty.
C28_Witness ==
    /\ exprString.err = "nil"
    /\ Len(exprString.SubExprs) = 2
    /\ exprString.SubStrings[3] = <<>>
    /\ exprRendered.err = "nil"

RECURSIVE Interleave(_, _)

\* literals[1] \o between[1] \o literals[2] \o ... \o the last literal
Interleave(literals, between) ==
    IF between = <<>> THEN literals[1]
    ELSE literals[1] \o between[1] \o Interleave(Tail(literals), Tail(between))

\* C29: Render returns literal[0] + prog[0](env) + ... + literal[n]: with no
\* expression it returns the single literal, with expressions it succeeds
\* exactly when every one evaluates without error to a string, and otherwise
\* returns an error and the empty text.
C29_RenderConcatenates ==
    exprRendered # Unrendered =>
        LET outs == exprRendered.outs
            good == \A i \in DOMAIN outs : outs[i].kind = "string"
        IN  /\ exprRendered.err = "nil" <=> good
            /\ good => exprRendered.result =
                          Interleave(exprString.SubStrings, [i \in DOMAIN outs |-> outs[i].str])
            /\ ~good => exprRendered.result = <<>>
            /\ outs = <<>> => exprRendered.result = exprConfig

\* C29 witness: a render of two expressions, both returning a string, between
\* non-empty literals.
C29_Witness ==
    /\ exprRendered.err = "nil"
    /\ Len(exprRendered.outs) = 2
    /\ exprRendered.outs[1].str # <<>>
    /\ exprString.SubStrings[2] # <<>>

\* Where expression k of a built ExprString starts in the configuration: the
\* index of its start token.
StartOf(k) ==
    Len(Interleave(SubSeq(exprString.SubStrings, 1, k),
                   [i \in 1..(k - 1) |->
                       exprStartToken \o exprString.SubExprs[i] \o exprEndToken]))

\* C30: each extracted expression is the text between a start token and the
\* last end token before the next start token (or the end of the string);
\* the string with f(x) in one expression gives that expression between two
\* empty literals; joining the literals with the expressions wrapped in the
\* tokens gives the configuration back.
C30_GreedyInABoundedWindow ==
    exprString.err = "nil" =>
        /\ \A k \in DOMAIN exprString.SubExprs :
              LET start == StartOf(k)
                  inner == start + Len(exprStartToken)
                  end == inner + Len(exprString.SubExprs[k])
                  later == {i \in Occurrences(exprConfig, exprStartToken) : i >= inner}
                  window == IF later = {} THEN Len(exprConfig)
                            ELSE CHOOSE i \in later : \A j \in later : i <= j
              IN  /\ HasAt(exprConfig, start, exprStartToken)
                  /\ HasAt(exprConfig, end, exprEndToken)
                  /\ end < window
                  /\ \A i \in Occurrences(exprConfig, exprEndToken) : ~(end < i /\ i < window)
        /\ exprConfig = <<"E", "(", "x", "(", "x", ")", ")">> =>
              /\ exprString.SubExprs = <<<<"x", "(", "x", ")">>>>
              /\ exprString.SubStrings = <<<<>>, <<>>>>
        /\ exprConfig = Interleave(exprString.SubStrings,
                                   [i \in DOMAIN exprString.SubExprs |->
                                       exprStartToken \o exprString.SubExprs[i] \o exprEndToken])

\* C30 witness: the string with f(x) in one expression has been built.
C30_Witness ==
    /\ exprConfig = <<"E", "(", "x", "(", "x", ")", ")">>
    /\ exprString.err = "nil"
    /\ exprString.SubExprs = <<<<"x", "(", "x", ")">>>>

\* Where the text after expression k of a built ExprString starts (k = 0:
\* the start of the configuration).
EndOf(k) ==
    IF k = 0 THEN 0
    ELSE StartOf(k) + Len(exprStartToken) + Len(exprString.SubExprs[k]) + Len(exprEndToken)

\* The first start token of the text r has no end token before the next
\* start token or the end of r.
Unterminated(r) ==
    LET p == Index(r, exprStartToken)
        inner == p + Len(exprStartToken)
        next == Index(Slice(r, inner, Len(r)), exprStartToken)
        window == IF next = -1 THEN Len(r) ELSE inner + next
    IN  /\ p # -1
        /\ \A i \in Occurrences(r, exprEndToken) : ~(p < i /\ i < window)

\* C31: when the first start token after the previous expression has no end
\* token before the next start token or the end of the string, parsing
\* stops: the whole remainder from the end of the previous expression is the
\* final literal and no expression is extracted from it.
C31_UnterminatedRemainderIsLiteral ==
    exprString.err = "nil" =>
        \A k \in 0..Len(exprString.SubExprs) :
            LET r == Slice(exprConfig, EndOf(k), Len(exprConfig))
            IN  Unterminated(r) =>
                    /\ Len(exprString.SubExprs) = k
                    /\ exprString.SubStrings[k + 1] = r
                    /\ Len(exprString.SubStrings) = k + 1

\* C31 witness: a start token without an end token before the next start
\* token, which has one: the whole string is the final literal and the
\* second expression is not extracted.
C31_Witness ==
    /\ exprConfig = <<"E", "(", "E", "(", "x", ")">>
    /\ exprString.err = "nil"
    /\ exprString.SubExprs = <<>>
    /\ exprString.SubStrings = <<exprConfig>>

(***************************************************************************)
(* More properties of JournaldInput.                                       *)
(***************************************************************************)
AfterCursorFlags == {i \in DOMAIN jcmd.args : jcmd.args[i].flag = "--after-cursor"}

\* C32: every journalctl command that Start builds carries --after-cursor
\* with the persisted cursor exactly once when a cursor is persisted, and
\* not at all when none is, in every Start of a sequence of Start/Stop cycles.
C32_AfterCursorAtMostOnce ==
    IF jcmd.cursor # 0
    THEN /\ Cardinality(AfterCursorFlags) = 1
         /\ \A i \in AfterCursorFlags : jcmd.args[i].value = jcmd.cursor
    ELSE AfterCursorFlags = {}

\* C34: a failed periodic Sync is only logged: the flusher leaves only at a
\* cancelled context, after a failed Sync it calls Sync again at the next
\* tick unless the context is cancelled (or the process is gone) first, and
\* the reader goes on reading meanwhile.
C34_FailedSyncIsOnlyLogged ==
    /\ [](jflusher = "done" => jctx = "done")
    /\ (jflusher = "logging") ~> (jflusher = "sync" \/ jctx # "live")
    /\ (jflusher = "logging" /\ jreader = "read")
          ~> (jreader # "read" \/ jnext > MaxEntries \/ jctx # "live")

\* C34 witness: a periodic Sync has failed under a live context while the
\* reader waits for the next line.
C34_Witness == jflusher = "logging" /\ jctx = "live" /\ jreader = "read" /\ jnext <= MaxEntries

\* Stop has returned for a Start that had spawned the goroutines.
StoppedAfterStart == jstop = "returned" /\ jstate = "started"

\* C35: when Stop returns, the reader's deferred Sync has run, after the
\* reader's last Set: no Set follows it, and if it succeeded the database
\* holds the cursor of the last entry the reader set.
C35_StopLeavesTheLastCursorDurable ==
    /\ [](StoppedAfterStart => jfinal # "none")
    /\ [](StoppedAfterStart /\ jfinal = "ok" => /\ jdurable = jcache
                                                /\ jcur # 0 => jdurable = jcur)
    /\ [][jfinal # "none" /\ jfinal' # "none" => jcache' = jcache]_vars

\* C35 witness: Stop has returned after the reader set the cursor of an entry
\* the database did not hold, and the reader's last Sync succeeded.
C35_Witness ==
    /\ StoppedAfterStart
    /\ jfinal = "ok"
    /\ jcur # 0
    /\ jcur = jdurable
    /\ jcur = jcmd.cursor + 1

(***************************************************************************)
(* More properties of UDPInput.                                            *)
(***************************************************************************)
\* C40: the handler writes an entry only for a message it has read: the read
\* behind every entry handed to Write returned no error.
C40_EntryOnlyForAMessageRead == \A i \in DOMAIN uwritten : uwritten[i].read = "nil"

(***************************************************************************)
(* JournaldInput.parseJournalEntry and the reader loop around it.  A line  *)
(* is either no JSON object, or an object over the keys below; strings are *)
(* sequences of characters.  int64 is scaled to DurationBits bits and a    *)
(* microsecond to Microsecond nanoseconds.                                 *)
(***************************************************************************)
MaxTimestampLen == 2

Microsecond == 10

TimestampStrings == UNION {[1..k -> {"1", "9", "x"}] : k \in 0..MaxTimestampLen}

JournalKeys == {"__REALTIME_TIMESTAMP", "__CURSOR", "MESSAGE"}

JournalValues(k) ==
    CASE k = "__REALTIME_TIMESTAMP" -> {Number(1)} \cup {Str(t) : t \in TimestampStrings}
      [] k = "__CURSOR" -> {Number(1), Str(<<"c">>)}
      [] OTHER -> {Str(<<"m">>)}

JournalObjects ==
    UNION {{o \in [d -> UNION {JournalValues(k) : k \in d}] :
               \A k \in d : o[k] \in JournalValues(k)} : d \in SUBSET JournalKeys}

\* What journalctl may write on a line.
JournalLines == {[json |-> FALSE]} \cup {[json |-> TRUE, object |-> o] : o \in JournalObjects}

DigitValue(c) == IF c = "1" THEN 1 ELSE 9

RECURSIVE DecimalValue(_)

DecimalValue(t) ==
    IF t = <<>> THEN 0 ELSE 10 * DecimalValue(SubSeq(t, 1, Len(t) - 1)) + DigitValue(t[Len(t)])

\* strconv.ParseInt(s, 10, 64): a syntax error or a range error, or the value.
ParseInt(t) ==
    IF t = <<>> \/ \E i \in DOMAIN t : t[i] \notin {"1", "9"}
    THEN [err |-> "invalid syntax", value |-> 0]
    ELSE IF DecimalValue(t) > MaxDuration
         THEN [err |-> "value out of range", value |-> MaxDuration]
         ELSE [err |-> "nil", value |-> DecimalValue(t)]

NoEntry == [Record |-> "none", Timestamp |-> 0]

JournalError(text) == [entry |-> NoEntry, cursor |-> <<>>, err |-> text]

parseJournalEntry(line) ==
    IF ~line.json THEN JournalError("unmarshal")
    ELSE LET record == line.object IN
    IF "__REALTIME_TIMESTAMP" \notin DOMAIN record
    THEN JournalError("journald record missing __REALTIME_TIMESTAMP field")
    ELSE IF record["__REALTIME_TIMESTAMP"].kind # "string"
    THEN JournalError("journald field for timestamp is not a string")
    ELSE LET timestampInt == ParseInt(record["__REALTIME_TIMESTAMP"].str) IN
    IF timestampInt.err # "nil" THEN JournalError("parse timestamp")
    ELSE LET deleted == Without(record, "__REALTIME_TIMESTAMP") IN
    IF "__CURSOR" \notin DOMAIN deleted
    THEN JournalError("journald record missing __CURSOR field")
    ELSE IF deleted["__CURSOR"].kind # "string"
    THEN JournalError("journald field for cursor is not a string")
    ELSE [entry |-> [Record |-> deleted,
                     Timestamp |-> Wrap(timestampInt.value * Microsecond)],
          cursor |-> deleted["__CURSOR"].str,
          err |-> "nil"]

\* One turn of the reader loop on a line it has read: a line that fails to
\* parse is logged and skipped, another has its cursor Set and its entry
\* written.
ReaderParses ==
    /\ journalParsed = [err |-> "unparsed"]
    /\ LET r == parseJournalEntry(journalLine)
       IN  journalParsed' = [entry |-> r.entry, cursor |-> r.cursor, err |-> r.err,
                             Set |-> IF r.err = "nil" THEN <<r.cursor>> ELSE <<>>,
                             written |-> IF r.err = "nil" THEN <<r.entry>> ELSE <<>>]
    /\ UNCHANGED journalLine
    /\ UNCHANGED AroundLine

LineInit ==
    /\ journalLine \in JournalLines
    /\ journalParsed = [err |-> "unparsed"]

LineNext == ReaderParses

LineAlone == LineInit /\ AroundLineAbsent

SpecJournalLine == LineAlone /\ [][LineNext]_vars

\* The line is an object with both fields as strings, the first a decimal
\* number of microseconds.
WellFormedLine ==
    /\ journalLine.json
    /\ {"__REALTIME_TIMESTAMP", "__CURSOR"} \subseteq DOMAIN journalLine.object
    /\ journalLine.object["__REALTIME_TIMESTAMP"].kind = "string"
    /\ journalLine.object["__CURSOR"].kind = "string"
    /\ ParseInt(journalLine.object["__REALTIME_TIMESTAMP"].str).err = "nil"

\* C33: the entry made of a journald line that parses has neither
\* __REALTIME_TIMESTAMP nor __CURSOR in its record, its Timestamp is the
\* line's microseconds in nanoseconds, and the cursor returned and Set is the
\* line's __CURSOR; a line missing either field, or with a value that is not
\* a string, gives an error, no entry and no cursor update.
C33_LineBecomesEntryAndCursor ==
    journalParsed.err \notin {"absent", "unparsed"} =>
        IF WellFormedLine
        THEN /\ journalParsed.err = "nil"
             /\ DOMAIN journalParsed.entry.Record \cap {"__REALTIME_TIMESTAMP", "__CURSOR"} = {}
             /\ journalParsed.entry.Timestamp =
                   DecimalValue(journalLine.object["__REALTIME_TIMESTAMP"].str) * Microsecond
             /\ journalParsed.cursor = journalLine.object["__CURSOR"].str
             /\ journalParsed.Set = <<journalParsed.cursor>>
        ELSE /\ journalParsed.err # "nil"
             /\ journalParsed.written = <<>>
             /\ journalParsed.Set = <<>>

(***************************************************************************)
(* JSONParser (the channel-based plugin).  Start spawns one goroutine that *)
(* receives an entry from p.Input(), runs processEntry on it and sends the *)
(* result on p.Output(); an entry that fails is logged and dropped.  The   *)
(* plugin upstream sends the entries and closes the channel; the plugin    *)
(* downstream receives whatever is sent on p.Output().                     *)
(***************************************************************************)
MaxSent == 3

\* The texts a string field may hold, and what json.Unmarshal into a
\* map[string]interface{} makes of each.
JSONTexts == {"{}", "{\"k\":\"v\"}", "null", "oops"}

Unmarshal(text) ==
    CASE text = "{}" -> [err |-> "nil", value |-> Map(EmptyMap)]
      [] text = "{\"k\":\"v\"}" -> [err |-> "nil", value |-> Map([k \in {"k"} |-> Str("v")])]
      [] text = "null" -> [err |-> "nil", value |-> Map(EmptyMap)]
      [] OTHER -> [err |-> "invalid character", value |-> Nil]

JSONFields == {"message", "parsed"}

\* The records of the entries sent to the plugin.
JSONRecords ==
    UNION {[d -> {Number(1)} \cup {Str(t) : t \in JSONTexts}] : d \in SUBSET {"message"}}

JSONParserConfigs == [field : {"message"}, destinationField : {"", "parsed"}]

\* e.Entry{}
EmptyEntry == [id |-> 0, Record |-> EmptyMap]

processEntry(p, entry) ==
    IF p.field \notin DOMAIN entry.Record
    THEN [err |-> "field does not exist on the record", entry |-> EmptyEntry]
    ELSE LET message == entry.Record[p.field] IN
    IF message.kind # "string"
    THEN [err |-> "field can not be parsed as JSON because it is of type", entry |-> EmptyEntry]
    ELSE LET parsedMessage == Unmarshal(message.str) IN
    IF parsedMessage.err # "nil"
    THEN [err |-> "failed to parse field as JSON", entry |-> EmptyEntry]
    ELSE [err |-> "nil",
          entry |-> [entry EXCEPT !.Record =
                        Put(entry.Record,
                            IF p.destinationField = "" THEN p.field ELSE p.destinationField,
                            parsedMessage.value)]]

\* The plugin upstream sends one more entry; entries are numbered as sent.
UpstreamSends ==
    /\ jsonWorker # "absent"
    /\ ~jsonClosed
    /\ Len(jsonReceived) + Len(jsonInput) < MaxSent
    /\ \E record \in JSONRecords :
          jsonInput' = Append(jsonInput,
                              [id |-> Len(jsonReceived) + Len(jsonInput) + 1, Record |-> record])
    /\ UNCHANGED <<jsonConfig, jsonClosed, jsonWorker, jsonReceived, jsonResult, jsonOutput, jsonWg>>
    /\ UNCHANGED AroundWorker

UpstreamCloses ==
    /\ jsonWorker # "absent"
    /\ ~jsonClosed
    /\ jsonClosed' = TRUE
    /\ UNCHANGED <<jsonConfig, jsonInput, jsonWorker, jsonReceived, jsonResult, jsonOutput, jsonWg>>
    /\ UNCHANGED AroundWorker

\* entry, ok := <-p.Input() with an entry in the channel.
WorkerReceives ==
    /\ jsonWorker = "receive"
    /\ jsonInput # <<>>
    /\ jsonInput' = Tail(jsonInput)
    /\ jsonReceived' = Append(jsonReceived, Head(jsonInput))
    /\ jsonWorker' = "process"
    /\ UNCHANGED <<jsonConfig, jsonClosed, jsonResult, jsonOutput, jsonWg>>
    /\ UNCHANGED AroundWorker

\* entry, ok := <-p.Input() on the closed and drained channel: return, and
\* the deferred wg.Done runs.
WorkerReturns ==
    /\ jsonWorker = "receive"
    /\ jsonInput = <<>>
    /\ jsonClosed
    /\ jsonWorker' = "done"
    /\ jsonWg' = jsonWg - 1
    /\ UNCHANGED <<jsonConfig, jsonInput, jsonClosed, jsonReceived, jsonResult, jsonOutput>>
    /\ UNCHANGED AroundWorker

\* Mutant of WorkerProcesses: the goroutine returns at the first entry that fails.
WorkerProcessesUntilError ==
    /\ jsonWorker = "process"
    /\ LET r == processEntry(jsonConfig, jsonReceived[Len(jsonReceived)])
       IN  /\ jsonResult' = r
           /\ jsonWorker' = IF r.err = "nil" THEN "send" ELSE "done"
           /\ jsonWg' = IF r.err = "nil" THEN jsonWg ELSE jsonWg - 1
    /\ UNCHANGED <<jsonConfig, jsonInput, jsonClosed, jsonReceived, jsonOutput>>
    /\ UNCHANGED AroundWorker

\* newEntry, err := p.processEntry(entry); on an error Warnw and continue.
WorkerProcesses ==
    /\ jsonWorker = "process"
    /\ LET r == processEntry(jsonConfig, jsonReceived[Len(jsonReceived)])
       IN  /\ jsonResult' = r
           /\ jsonWorker' = IF r.err = "nil" THEN "send" ELSE "receive"
    /\ UNCHANGED <<jsonConfig, jsonInput, jsonClosed, jsonReceived, jsonOutput, jsonWg>>
    /\ UNCHANGED AroundWorker

\* p.Output() <- newEntry, received by the plugin downstream.
WorkerSends ==
    /\ jsonWorker = "send"
    /\ jsonOutput' = Append(jsonOutput, jsonResult.entry)
    /\ jsonWorker' = "receive"
    /\ UNCHANGED <<jsonConfig, jsonInput, jsonClosed, jsonReceived, jsonResult, jsonWg>>
    /\ UNCHANGED AroundWorker

\* After Start: the caller has added the goroutine to the wait group.
WorkerInit ==
    /\ jsonConfig \in JSONParserConfigs
    /\ jsonInput = <<>>
    /\ jsonClosed = FALSE
    /\ jsonWorker = "receive"
    /\ jsonReceived = <<>>
    /\ jsonResult = [err |-> "none"]
    /\ jsonOutput = <<>>
    /\ jsonWg = 1

WorkerNext == WorkerReceives \/ WorkerReturns \/ WorkerProcesses \/ WorkerSends

JSONParserNext == UpstreamSends \/ UpstreamCloses \/ WorkerNext

WorkerAlone == WorkerInit /\ AroundWorkerAbsent

\* The goroutine is scheduled, and the plugin downstream receives.
SpecJSONParser == WorkerAlone /\ [][JSONParserNext]_vars /\ WF_vars(WorkerNext)

\* The entries the goroutine is done with: all it received but the one in hand.
Handled ==
    IF jsonWorker \in {"process", "send"}
    THEN SubSeq(jsonReceived, 1, Len(jsonReceived) - 1)
    ELSE jsonReceived

Parses(entry) == processEntry(jsonConfig, entry).err = "nil"

\* What the entries that parse, in the order received, come out as.
ParsedOf(received) ==
    LET good == SelectSeq(received, Parses)
    IN  [i \in 1..Len(good) |-> processEntry(jsonConfig, good[i]).entry]

\* C37: the goroutine has forwarded exactly the entries it received that
\* parse, as parsed and in the order received, and none that failed (field
\* absent, not a string, invalid JSON); it returns, with wg.Done, only on the
\* closed and drained input channel, and does so once the channel is closed.
C37_FailedEntriesAreDroppedOnly ==
    /\ [](jsonOutput = ParsedOf(Handled))
    /\ [](IF jsonWorker = "done"
          THEN jsonClosed /\ jsonInput = <<>> /\ jsonWg = 0
          ELSE jsonWg = 1)
    /\ jsonClosed ~> (jsonWorker = "done")

\* C37 witness: the goroutine has returned after it dropped two entries that
\* fail differently and forwarded a later one.
C37_Witness ==
    /\ jsonWorker = "done"
    /\ Len(jsonReceived) = 3
    /\ ~Parses(jsonReceived[1])
    /\ ~Parses(jsonReceived[2])
    /\ jsonReceived[1].Record # jsonReceived[2].Record
    /\ Parses(jsonReceived[3])
    /\ Len(jsonOutput) = 1
    /\ jsonOutput[1].id = 3

(***************************************************************************)
(* ParserOperator with an embedded TimeParser, as the JSON parser operator *)
(* of the tests uses it: Process takes the value out of ParseFrom, parses  *)
(* it, writes the result to ParseTo, runs the TimeParser (layout epoch,    *)
(* "s") on the entry and writes the entry to the output.  An error at any  *)
(* step is returned and the entry is not written.                          *)
(***************************************************************************)
\* The texts under ParseFrom and what the JSON parse function makes of them.
ParserTexts ==
    {"{}", "{\"timestamp\":5}", "{\"timestamp\":\"5\"}", "{\"timestamp\":\"x\"}",
     "{\"superkey\":\"superval\",\"timestamp\":5}", "oops"}

ParseJSON(value) ==
    IF value.kind # "string" THEN [err |-> "not a string", value |-> Nil]
    ELSE CASE value.str = "{}" -> [err |-> "nil", value |-> Map(EmptyMap)]
           [] value.str = "{\"timestamp\":5}" ->
                 [err |-> "nil", value |-> Map([k \in {"timestamp"} |-> Number(5)])]
           [] value.str = "{\"timestamp\":\"5\"}" ->
                 [err |-> "nil", value |-> Map([k \in {"timestamp"} |-> Str("5")])]
           [] value.str = "{\"timestamp\":\"x\"}" ->
                 [err |-> "nil", value |-> Map([k \in {"timestamp"} |-> Str("x")])]
           [] value.str = "{\"superkey\":\"superval\",\"timestamp\":5}" ->
                 [err |-> "nil",
                  value |-> Map([k \in {"superkey", "timestamp"} |->
                                    IF k = "superkey" THEN Str("superval") ELSE Number(5)])]
           [] OTHER -> [err |-> "invalid JSON", value |-> Nil]

\* The epoch layout "s": the seconds an integer or a decimal string gives.
EpochSeconds(value) ==
    CASE value.kind = "int" -> [err |-> "nil", seconds |-> value.int]
      [] value.kind = "string" /\ value.str = "5" -> [err |-> "nil", seconds |-> 5]
      [] value.kind = "string" /\ value.str = "9" -> [err |-> "nil", seconds |-> 9]
      [] OTHER -> [err |-> "invalid value", seconds |-> 0]

\* The field the TimeParser of a parser reads: timestamp, under ParseTo.
TimeParseFrom(op) == op.ParseTo \o <<"timestamp">>

\* TimeParser.Parse: set the Timestamp from the field; remove the field
\* unless Preserve.
TimeParse(op, entry) ==
    LET found == Get(entry.Record, TimeParseFrom(op))
        time == EpochSeconds(found.value)
    IN  IF ~found.ok THEN [err |-> "missing time field", entry |-> entry]
        ELSE IF time.err # "nil" THEN [err |-> time.err, entry |-> entry]
        ELSE [err |-> "nil",
              entry |-> [Record |-> IF op.TimeParser.Preserve
                                    THEN entry.Record
                                    ELSE Delete(entry.Record, TimeParseFrom(op)).record,
                         Timestamp |-> time.seconds]]

\* The structural parse: take the value out of ParseFrom, parse it, write
\* the result to ParseTo.
StructuralParse(op, entry) ==
    LET taken == Delete(entry.Record, op.ParseFrom)
        parsed == ParseJSON(taken.value)
    IN  IF ~taken.ok THEN [err |-> "missing parse_from field", entry |-> entry]
        ELSE IF parsed.err # "nil" THEN [err |-> parsed.err, entry |-> entry]
        ELSE [err |-> "nil",
              entry |-> [entry EXCEPT !.Record = Set(taken.record, op.ParseTo, parsed.value)]]

Written(r) == [err |-> r.err, written |-> IF r.err = "nil" THEN <<r.entry>> ELSE <<>>]

\* Mutant of ParserProcess: the time parse runs before the structural parse.
ParserProcessTimeFirst(op, entry) ==
    LET timed == IF op.TimeParser.declared THEN TimeParse(op, entry)
                 ELSE [err |-> "nil", entry |-> entry]
    IN  IF timed.err # "nil" THEN Written(timed)
        ELSE Written(StructuralParse(op, timed.entry))

ParserProcess(op, entry) ==
    LET parsed == StructuralParse(op, entry)
    IN  IF parsed.err # "nil" THEN Written(parsed)
        ELSE IF op.TimeParser.declared THEN Written(TimeParse(op, parsed.entry))
        ELSE Written(parsed)

ParserOperators ==
    [ParseFrom : {<<"testfield">>},
     ParseTo : {<<"testparsed">>, <<"testfield">>},
     TimeParser : [declared : BOOLEAN, Preserve : BOOLEAN]]

\* The records of the entries: the field to parse, and maybe an older
\* subtree where the result goes.
ParserRecords ==
    {Map(f) : f \in UNION {[d -> {Number(1), Map([k \in {"timestamp"} |-> Number(9)])}
                                    \cup {Str(t) : t \in ParserTexts}] :
                           d \in SUBSET {"testfield", "testparsed"}}}

Process ==
    /\ parserResult.err = "none"
    /\ parserResult' = ParserProcess(parserOperator, parserEntry)
    /\ UNCHANGED <<parserOperator, parserEntry>>
    /\ UNCHANGED AroundParser

ParserInit ==
    /\ parserOperator \in ParserOperators
    /\ parserEntry \in [Record : ParserRecords, Timestamp : {0}]
    /\ parserResult = [err |-> "none", written |-> <<>>]

ParserNext == Process

ParserAlone == ParserInit /\ AroundParserAbsent

SpecParser == ParserAlone /\ [][ParserNext]_vars

\* The entry that reached the output, and what the parse of the source made.
ParserOutput == parserResult.written[1]

SourceParsed == ParseJSON(Get(parserEntry.Record, parserOperator.ParseFrom).value).value

TimeParsed == parserResult.written # <<>> /\ parserOperator.TimeParser.declared

\* The Timestamp is the one of the parsed source, and the timestamp field is
\* in the parsed output iff Preserve.
TimeIsOfTheParsedSource ==
    /\ ParserOutput.Timestamp = EpochSeconds(Get(SourceParsed, <<"timestamp">>).value).seconds
    /\ Get(ParserOutput.Record, TimeParseFrom(parserOperator)).ok
          <=> parserOperator.TimeParser.Preserve

MaxOldLines == 2

MaxAppends == 2

MaxTruncates == 1

Line(n, appended) == [n |-> n, appended |-> appended]

\* The file as it is when NewFileWatcher stats it.
OldFiles == {[i \in 1..k |-> Line(i, FALSE)] : k \in 0..MaxOldLines}

\* NewFileWatcher: the offset is 0, or the size of the file.
NewFileWatcherOffset(startFromBeginning, fileSize) ==
    IF startFromBeginning THEN 0 ELSE fileSize

\* Somebody appends a line to the file.
FileAppend ==
    /\ wat # "absent"
    /\ whistory.appends < MaxAppends
    /\ wdisk' = Append(wdisk, Line(whistory.appends + 1, TRUE))
    /\ whistory' = [whistory EXCEPT !.appends = @ + 1]
    /\ UNCHANGED <<wconfig, woffset, wposition, wemitted, wctx, wwatcher, wat>>
    /\ UNCHANGED AroundWatcher

\* Somebody truncates the file.
FileTruncate ==
    /\ wat # "absent"
    /\ whistory.truncates < MaxTruncates
    /\ \E size \in 0..(Len(wdisk) - 1) : wdisk' = SubSeq(wdisk, 1, size)
    /\ whistory' = [whistory EXCEPT !.truncates = @ + 1]
    /\ UNCHANGED <<wconfig, woffset, wposition, wemitted, wctx, wwatcher, wat>>
    /\ UNCHANGED AroundWatcher

\* Watch up to the first checkFile: the context, the fsnotify watcher or the
\* empty watcher of the polling fallback, os.Open.
WatchStarts ==
    /\ wat = "new"
    /\ wctx' = "live"
    /\ wwatcher' = IF wconfig.notify THEN "active" ELSE "empty"
    /\ \E opened \in BOOLEAN :
          IF opened
          THEN wposition' = 0 /\ wat' = "touch"
          ELSE UNCHANGED wposition /\ wat' = "returned"
    /\ UNCHANGED <<wconfig, wdisk, woffset, wemitted, whistory>>
    /\ UNCHANGED AroundWatcher

\* FileWatcher.Close, or the cancel of the context Watch was given.
WatcherCancel ==
    /\ wctx = "live"
    /\ wctx' = "done"
    /\ UNCHANGED <<wconfig, wdisk, woffset, wposition, wemitted, wwatcher, wat, whistory>>
    /\ UNCHANGED AroundWatcher

\* readToEnd: a scanner over w.file from its read position; every line goes
\* to the output and the offset becomes the position of the file.  With the
\* context done it returns before the first line.
readToEnd(file, position, offset, ctx) ==
    IF ctx = "done" \/ position >= Len(file)
    THEN [emitted |-> <<>>, position |-> position, offset |-> offset]
    ELSE [emitted |-> SubSeq(file, position + 1, Len(file)),
          position |-> Len(file), offset |-> Len(file)]

\* checkFile past its select: Stat, then by the size against the offset.
checkFile(file, position, offset, ctx, statOk) ==
    IF ~statOk THEN [emitted |-> <<>>, position |-> position, offset |-> offset, restarted |-> FALSE]
    ELSE IF Len(file) < offset
    THEN [restarted |-> TRUE] @@ readToEnd(file, 0, 0, ctx)
    ELSE IF Len(file) > offset
    THEN [restarted |-> FALSE] @@ readToEnd(file, position, offset, ctx)
    ELSE [emitted |-> <<>>, position |-> position, offset |-> offset, restarted |-> FALSE]

\* checkFile: the file source takes the path from fileTouched.
CheckFileTouched ==
    /\ wat = "touch"
    /\ \E statOk \in BOOLEAN :
          LET r == checkFile(wdisk, wposition, woffset, wctx, statOk)
          IN  /\ wemitted' = wemitted \o r.emitted
              /\ wposition' = r.position
              /\ woffset' = r.offset
              /\ whistory' = [whistory EXCEPT !.restarts = IF r.restarted THEN 1 ELSE @]
    /\ wat' = "select"
    /\ UNCHANGED <<wconfig, wdisk, wctx, wwatcher>>
    /\ UNCHANGED AroundWatcher

\* checkFile: the context is done before the file source takes the path.
CheckFileCancelled ==
    /\ wat = "touch"
    /\ wctx = "done"
    /\ wat' = "select"
    /\ UNCHANGED <<wconfig, wdisk, woffset, wposition, wemitted, wctx, wwatcher, whistory>>
    /\ UNCHANGED AroundWatcher

\* case <-ctx.Done(): timer.Stop(); err := watcher.Close()
SelectDone ==
    /\ wat = "select"
    /\ wctx = "done"
    /\ wat' = "closing"
    /\ UNCHANGED <<wconfig, wdisk, woffset, wposition, wemitted, wctx, wwatcher, whistory>>
    /\ UNCHANGED AroundWatcher

\* What watcher.Close() may do: on a watcher that NewWatcher made it closes
\* the watcher and returns nil, again and again; on the empty
\* &fsnotify.Watcher{} of the fallback, whose channels are nil, nothing is
\* promised.
CloseOutcomes(watcher) ==
    IF watcher = "empty" THEN {"nil", "error", "panic"} ELSE {"nil"}

\* ... if err != nil { return err }, and otherwise the next turn of the loop.
WatcherCloseReturns ==
    /\ wat = "closing"
    /\ \E outcome \in CloseOutcomes(wwatcher) :
          wat' = CASE outcome = "nil" -> "select"
                   [] outcome = "error" -> "returned"
                   [] OTHER -> "panicked"
    /\ wwatcher' = IF wwatcher = "active" THEN "closed" ELSE wwatcher
    /\ UNCHANGED <<wconfig, wdisk, woffset, wposition, wemitted, wctx, whistory>>
    /\ UNCHANGED AroundWatcher

\* case event, ok := <-watcher.Events with an event: Remove closes the
\* watcher and tells the file source; Write and Chmod check the file.
SelectEvent ==
    /\ wat = "select"
    /\ wwatcher = "active"
    /\ \E remove \in BOOLEAN :
          IF remove
          THEN wwatcher' = "closed" /\ wat' = "removed"
          ELSE UNCHANGED wwatcher /\ wat' = "touch"
    /\ UNCHANGED <<wconfig, wdisk, woffset, wposition, wemitted, wctx, whistory>>
    /\ UNCHANGED AroundWatcher

\* w.fileSource.fileRemoved <- w; continue
RemovedSent ==
    /\ wat = "removed"
    /\ wat' = "select"
    /\ UNCHANGED <<wconfig, wdisk, woffset, wposition, wemitted, wctx, wwatcher, whistory>>
    /\ UNCHANGED AroundWatcher

\* The receive from Events or Errors of a closed watcher, or an error of a
\* watcher at work: Watch returns.
SelectClosedOrError ==
    /\ wat = "select"
    /\ wwatcher \in {"active", "closed"}
    /\ wat' = "returned"
    /\ UNCHANGED <<wconfig, wdisk, woffset, wposition, wemitted, wctx, wwatcher, whistory>>
    /\ UNCHANGED AroundWatcher

\* case <-timer.C: w.checkFile(ctx)
SelectTimer ==
    /\ wat = "select"
    /\ wat' = "touch"
    /\ UNCHANGED <<wconfig, wdisk, woffset, wposition, wemitted, wctx, wwatcher, whistory>>
    /\ UNCHANGED AroundWatcher

WatcherInit ==
    /\ wconfig \in [startFromBeginning : BOOLEAN, notify : BOOLEAN]
    /\ wdisk \in OldFiles
    /\ woffset = NewFileWatcherOffset(wconfig.startFromBeginning, Len(wdisk))
    /\ wposition = 0
    /\ wemitted = <<>>
    /\ wctx = "none"
    /\ wwatcher = "none"
    /\ wat = "new"
    /\ whistory = [appends |-> 0, truncates |-> 0, restarts |-> 0]

WatchNext ==
    \/ WatchStarts \/ CheckFileTouched \/ CheckFileCancelled \/ SelectDone
    \/ WatcherCloseReturns \/ SelectEvent \/ RemovedSent \/ SelectClosedOrError
    \/ SelectTimer

WatcherNext == FileAppend \/ FileTruncate \/ WatcherCancel \/ WatchNext

WatcherAlone == WatcherInit /\ AroundWatcherAbsent

\* Watch is scheduled, the file source receives what Watch sends it, and a
\* select takes each case that is ready again and again sooner or later.
WatcherFairness ==
    /\ WF_vars(WatchNext)
    /\ SF_vars(SelectDone)
    /\ SF_vars(SelectClosedOrError /\ wwatcher = "closed")

SpecFileWatcher == WatcherAlone /\ [][WatcherNext]_vars /\ WatcherFairness

\* C38: once the context of Watch is cancelled, Watch returns, with fsnotify
\* at work and in the polling fallback alike.
C38_WatchReturnsAfterCancel == (wctx = "done") ~> (wat = "returned")

\* C39: a watcher made with startFromBeginning false hands to the output
\* only lines appended after it was made, as long as it has seen no
\* truncation; and the check that finds the file smaller than the offset
\* reads it from offset 0.
C39_OnlyAppendedLinesAreEmitted ==
    /\ [](~wconfig.startFromBeginning /\ whistory.restarts = 0
             => \A i \in DOMAIN wemitted : wemitted[i].appended)
    /\ [][wat = "touch" /\ Len(wdisk) < woffset /\ woffset' # woffset /\ wctx = "live"
             => woffset' = Len(wdisk) /\ wemitted' = wemitted \o wdisk]_vars

====
